---------------------------- MODULE Spec2Model ----------------------------
(***************************************************************************)
(* Model of the torrent metainfo builder of music-upload-tool              *)
(* (src/modules/upload/torrent.py) and of the torrent step of its callers  *)
(* process_file / process_album (src/music_upload_assistant.py).           *)
(*                                                                         *)
(* Conventions.  A Python str is a sequence of one-character strings; the  *)
(* value None is the one-element sequence NoneVal.  A file's content is a  *)
(* sequence of bytes.  A SHA-1 digest is one token (a string that is an    *)
(* injective image of the hashed bytes) standing for DigestSize bytes.     *)
(***************************************************************************)
EXTENDS Integers, Sequences, FiniteSets, TLC

VARIABLES
    kind,       \* the input path: "missing", "file" or "dir"
    tree,       \* relative path of every regular file under it |-> content
    path,       \* basename(path) and basename(dirname(path))
    now,        \* int(time.time())
    bencodepy,  \* whether the bencodepy module was imported (line 15-19)
    outdir,     \* the output directory: whether it exists, and its files
    built,      \* a direct call of _build_info_dict and its result
    bigfiles,   \* the sizes of the files under a path holding large files
    sized,      \* a direct call of _calculate_piece_size and its result
    ct,         \* the running call of create_torrent
    prev,       \* the previous, finished call of create_torrent
    orch,       \* the torrent step of process_file / process_album
    rt,         \* the call of create_tracker_specific_torrent
    named,      \* a direct call of _sanitize_filename and its result
    par,        \* the calls of create_torrent that run side by side
    dirs,       \* the sub-directories under the input path that hold nothing
    hs,         \* the hashing loop of _calculate_pieces(_for_files), step by step
    net,        \* a call of a tracker or client method: its inputs and the HTTP requests it sent
    run         \* a run of process_file or process_album: options, tracks, metadata

(***************************************************************************)
(* Bounds of the model.                                                    *)
(***************************************************************************)
MaxFileLen == 3
MaxPieceLen == 3

\* hashlib.sha1().digest() is 20 bytes long
DigestSize == 20

Byte == {0, 1}

NoneVal == <<"None">>

Min(a, b) == IF a < b THEN a ELSE b

RECURSIVE SeqsUpTo(_, _)
SeqsUpTo(S, n) ==
    IF n = 0 THEN {<<>>}
    ELSE LET shorter == SeqsUpTo(S, n - 1)
         IN  shorter \cup {Append(s, x) : s \in {t \in shorter : Len(t) = n - 1}, x \in S}

Contents == SeqsUpTo(Byte, MaxFileLen)

(***************************************************************************)
(* Python's ordering of str and of list of str.                            *)
(***************************************************************************)
\* The characters the model's strings are made of, each with its code point
CodePoints ==
    <<
       <<" ", 32>>, <<"*", 42>>, <<"-", 45>>, <<".", 46>>, <<"/", 47>>, <<"0", 48>>, <<"1", 49>>,
       <<"2", 50>>, <<"3", 51>>, <<"4", 52>>, <<"5", 53>>, <<"6", 54>>, <<"7", 55>>,
       <<"8", 56>>, <<"9", 57>>, <<":", 58>>, <<"<", 60>>, <<">", 62>>, <<"?", 63>>,
       <<"A", 65>>, <<"B", 66>>, <<"C", 67>>, <<"D", 68>>, <<"E", 69>>, <<"F", 70>>,
       <<"G", 71>>, <<"H", 72>>, <<"I", 73>>, <<"J", 74>>, <<"K", 75>>, <<"L", 76>>,
       <<"M", 77>>, <<"N", 78>>, <<"O", 79>>, <<"P", 80>>, <<"Q", 81>>, <<"R", 82>>,
       <<"S", 83>>, <<"T", 84>>, <<"U", 85>>, <<"V", 86>>, <<"W", 87>>, <<"X", 88>>,
       <<"Y", 89>>, <<"Z", 90>>, <<"[", 91>>, <<"]", 93>>, <<"_", 95>>, <<"a", 97>>,
       <<"b", 98>>, <<"c", 99>>, <<"d", 100>>, <<"e", 101>>, <<"f", 102>>, <<"g", 103>>,
       <<"h", 104>>, <<"i", 105>>, <<"j", 106>>, <<"k", 107>>, <<"l", 108>>, <<"m", 109>>,
       <<"n", 110>>, <<"o", 111>>, <<"p", 112>>, <<"q", 113>>, <<"r", 114>>, <<"s", 115>>,
       <<"t", 116>>, <<"u", 117>>, <<"v", 118>>, <<"w", 119>>, <<"x", 120>>, <<"y", 121>>,
       <<"z", 122>>, <<"|", 124>> >>

Char == {CodePoints[i][1] : i \in 1..Len(CodePoints)}

OrdTable == [c \in Char |-> (CHOOSE i \in 1..Len(CodePoints) : CodePoints[i][1] = c)]

\* ord(c): the code point of a character, which is also its UTF-8 byte
Ord(c) == CodePoints[OrdTable[c]][2]

\* s < t for two str (or two bytes) values: the first differing character
\* decides, a proper prefix is smaller
RECURSIVE StrLess(_, _)
StrLess(s, t) ==
    IF t = <<>> THEN FALSE
    ELSE IF s = <<>> THEN TRUE
    ELSE IF Head(s) = Head(t) THEN StrLess(Tail(s), Tail(t))
    ELSE Ord(Head(s)) < Ord(Head(t))

\* p < q for two lists of str: the first differing element decides
RECURSIVE ListLess(_, _)
ListLess(p, q) ==
    IF q = <<>> THEN FALSE
    ELSE IF p = <<>> THEN TRUE
    ELSE IF Head(p) = Head(q) THEN ListLess(Tail(p), Tail(q))
    ELSE StrLess(Head(p), Head(q))

\* os.sep.join(parts): the relative path as one string
RECURSIVE JoinPath(_)
JoinPath(parts) ==
    IF parts = <<>> THEN <<>>
    ELSE IF Len(parts) = 1 THEN Head(parts)
    ELSE Head(parts) \o <<"/">> \o JoinPath(Tail(parts))

(***************************************************************************)
(* Python values that are bencoded: int, str/bytes, list and dict.  A dict *)
(* is the sequence of its <<key, value>> pairs in insertion order.         *)
(***************************************************************************)
PyInt(n) == [t |-> "int", v |-> n]
PyStr(s) == [t |-> "str", v |-> s]
PyBytes(s) == [t |-> "bytes", v |-> s]
PyList(l) == [t |-> "list", v |-> l]
PyDict(d) == [t |-> "dict", v |-> d]

DHas(d, k) == \E i \in 1..Len(d.v) : d.v[i][1] = k

DGet(d, k) == d.v[CHOOSE i \in 1..Len(d.v) : d.v[i][1] = k][2]

DKeys(d) == [i \in 1..Len(d.v) |-> d.v[i][1]]

\* d[k] = x: replaces the value of an existing key in place, else appends
DSet(d, k, x) ==
    IF DHas(d, k)
    THEN PyDict([i \in 1..Len(d.v) |-> IF d.v[i][1] = k THEN <<k, x>> ELSE d.v[i]])
    ELSE PyDict(Append(d.v, <<k, x>>))

\* Python truthiness of an Optional[str]
Truthy(s) == s # NoneVal /\ s # <<>>

\* a or b
Or(a, b) == IF Truthy(a) THEN a ELSE b

(***************************************************************************)
(* The input path.  kind is "missing", "file" or "dir"; tree maps the      *)
(* relative path (a list of segments) of every regular file under the      *)
(* input path to its content.  A single file has the empty relative path.  *)
(***************************************************************************)
SegA == <<"a">>
SegB == <<"b">>
SegAdotB == <<"a", ".", "b">>

\* a/b, a.b and b: a nested file, and a directory whose name is a prefix of
\* the name of a sibling file
TreePaths == {<<SegA, SegB>>, <<SegAdotB>>, <<SegB>>}

Trees(paths, contents) ==
    UNION {[P -> contents] : P \in SUBSET paths}

Files == DOMAIN tree

\* os.path.exists(path), os.path.isdir(path)
exists == kind # "missing"
isdir == kind = "dir"

\* os.path.getsize(file)
getsize(p) == Len(tree[p])

Perms(S) ==
    {s \in [1..Cardinality(S) -> S] : \A x \in S : \E i \in 1..Cardinality(S) : s[i] = x}

RECURSIVE Flatten(_)
Flatten(ss) == IF ss = <<>> THEN <<>> ELSE Head(ss) \o Flatten(Tail(ss))

\* The orders in which os.walk(dir_path) can enumerate the files: top-down,
\* the directory's own files in the order the file system lists them, then
\* each sub-directory in listing order.  (The trees of the model are at most
\* two levels deep.)  A sub-directory that holds nothing is visited with an
\* empty list of file names.
WalkOrders ==
    LET rootFiles == {p \in Files : Len(p) = 1}
        subdirs == {p[1] : p \in {q \in Files : Len(q) = 2}} \cup dirs
        inDir(d) == {p \in Files : Len(p) = 2 /\ p[1] = d}
    IN  {r \o Flatten(sub) :
            r \in Perms(rootFiles),
            sub \in UNION {{[i \in 1..Len(dp) |-> f[dp[i]]] :
                               f \in {g \in [subdirs -> UNION {Perms(inDir(d)) : d \in subdirs}] :
                                          \A d \in subdirs : g[d] \in Perms(inDir(d))}} :
                           dp \in Perms(subdirs)}}

(***************************************************************************)
(* The hashing engine.                                                     *)
(***************************************************************************)
\* hashlib.sha1(); update(data); digest(): one token per digest
Sha1Digest(data) == "sha1" \o ToString(data)

\* f.read(n) at offset pos of a file holding data; a negative n reads to the end
Read(data, pos, n) ==
    IF n < 0 THEN SubSeq(data, pos + 1, Len(data))
    ELSE SubSeq(data, pos + 1, Min(pos + n, Len(data)))

\* The while loop of _calculate_pieces: pieces so far, file offset pos
RECURSIVE SingleReadLoop(_, _, _, _)
SingleReadLoop(data, pos, piece_size, pieces) ==
    LET chunk == Read(data, pos, piece_size)
    IN  IF chunk = <<>> THEN pieces
        ELSE SingleReadLoop(data, pos + Len(chunk), piece_size,
                            Append(pieces, Sha1Digest(chunk)))

\* _calculate_pieces(file_path, piece_size), data the file's content
calculate_pieces(data, piece_size) == SingleReadLoop(data, 0, piece_size, <<>>)

\* Mutant: the read that finds the end of a file emits a digest
RECURSIVE Mut_MultiReadLoop_hash_at_eof(_, _, _, _)
Mut_MultiReadLoop_hash_at_eof(data, pos, piece_size, st) ==
    LET bytes_needed == piece_size - Len(st.piece_data)
        chunk == Read(data, pos, bytes_needed)
        piece_data == st.piece_data \o chunk
    IN  IF chunk = <<>>
        THEN [pieces |-> Append(st.pieces, Sha1Digest(st.piece_data)),
              piece_data |-> st.piece_data]
        ELSE Mut_MultiReadLoop_hash_at_eof(data, pos + Len(chunk), piece_size,
                 IF Len(piece_data) = piece_size
                 THEN [pieces |-> Append(st.pieces, Sha1Digest(piece_data)),
                       piece_data |-> <<>>]
                 ELSE [pieces |-> st.pieces, piece_data |-> piece_data])

\* The inner while loop of _calculate_pieces_for_files on one open file;
\* st holds the locals pieces and piece_data
RECURSIVE MultiReadLoop(_, _, _, _)
MultiReadLoop(data, pos, piece_size, st) ==
    LET bytes_needed == piece_size - Len(st.piece_data)
        chunk == Read(data, pos, bytes_needed)
        piece_data == st.piece_data \o chunk
    IN  IF chunk = <<>> THEN st
        ELSE MultiReadLoop(data, pos + Len(chunk), piece_size,
                 IF Len(piece_data) = piece_size
                 THEN [pieces |-> Append(st.pieces, Sha1Digest(piece_data)),
                       piece_data |-> <<>>]
                 ELSE [pieces |-> st.pieces, piece_data |-> piece_data])

\* The path of a files entry as a list of str
EntryPath(e) == [i \in 1..Len(DGet(e, "path").v) |-> DGet(e, "path").v[i].v]

\* The for loop of _calculate_pieces_for_files over the files list
RECURSIVE FilesLoop(_, _, _)
FilesLoop(files, piece_size, st) ==
    IF files = <<>> THEN st
    ELSE FilesLoop(Tail(files), piece_size,
                   MultiReadLoop(tree[EntryPath(Head(files))], 0, piece_size, st))

\* Mutant: the final digest is appended whether or not bytes remain
Mut_calculate_pieces_trailing(files, piece_size) ==
    LET st == FilesLoop(files, piece_size, [pieces |-> <<>>, piece_data |-> <<>>])
    IN  Append(st.pieces, Sha1Digest(st.piece_data))

\* Mutant: every file is hashed on its own, the hash restarts at a file boundary
RECURSIVE Mut_calculate_pieces_per_file(_, _)
Mut_calculate_pieces_per_file(files, piece_size) ==
    IF files = <<>> THEN <<>>
    ELSE calculate_pieces(tree[EntryPath(Head(files))], piece_size)
           \o Mut_calculate_pieces_per_file(Tail(files), piece_size)

\* _calculate_pieces_for_files(base_dir, files, piece_size)
calculate_pieces_for_files(files, piece_size) ==
    LET st == FilesLoop(files, piece_size, [pieces |-> <<>>, piece_data |-> <<>>])
    IN  IF st.piece_data # <<>>
        THEN Append(st.pieces, Sha1Digest(st.piece_data))
        ELSE st.pieces

(***************************************************************************)
(* The info dictionary.                                                    *)
(***************************************************************************)
\* Mutant: the entry's length counts one byte more than the file holds
Mut_FileEntry_one_more(p) ==
    PyDict(<< <<"length", PyInt(getsize(p) + 1)>>,
              <<"path", PyList([i \in 1..Len(p) |-> PyStr(p[i])])>> >>)

\* {'length': file_size, 'path': path_list}
FileEntry(p) ==
    PyDict(<< <<"length", PyInt(getsize(p))>>,
              <<"path", PyList([i \in 1..Len(p) |-> PyStr(p[i])])>> >>)

\* key=lambda x: x['path'], compared as Python compares two lists of str
PathKeyLess(e1, e2) == ListLess(EntryPath(e1), EntryPath(e2))

\* list.sort(key=...): a stable sort, here by insertion from the left
RECURSIVE InsertSorted(_, _)
InsertSorted(sorted, e) ==
    IF sorted = <<>> THEN <<e>>
    ELSE IF PathKeyLess(e, Head(sorted)) THEN <<e>> \o sorted
    ELSE <<Head(sorted)>> \o InsertSorted(Tail(sorted), e)

\* Mutant: the list is left in the order of the walk
Mut_SortFiles_unsorted(files) == files

\* Mutant: the key is the joined relative path, compared as one string
RECURSIVE Mut_InsertByFullPath(_, _)
Mut_InsertByFullPath(sorted, e) ==
    IF sorted = <<>> THEN <<e>>
    ELSE IF StrLess(JoinPath(EntryPath(e)), JoinPath(EntryPath(Head(sorted))))
         THEN <<e>> \o sorted
    ELSE <<Head(sorted)>> \o Mut_InsertByFullPath(Tail(sorted), e)

RECURSIVE Mut_SortFiles_fullpath(_)
Mut_SortFiles_fullpath(files) ==
    IF files = <<>> THEN <<>>
    ELSE Mut_InsertByFullPath(Mut_SortFiles_fullpath(SubSeq(files, 1, Len(files) - 1)),
                              files[Len(files)])

\* files.sort(key=lambda x: x['path'])
RECURSIVE SortFiles(_)
SortFiles(files) ==
    IF files = <<>> THEN <<>>
    ELSE InsertSorted(SortFiles(SubSeq(files, 1, Len(files) - 1)), files[Len(files)])

(***************************************************************************)
(* The name of the input path and the clock.                               *)
(***************************************************************************)
\* path holds os.path.basename(path) and os.path.basename(os.path.dirname(path));
\* now is int(time.time())
\* "music/al", "al/" (a trailing separator), "." and "/"
PathChoices ==
    { [base |-> <<"a", "l">>, parent |-> <<"m">>],
      [base |-> <<>>, parent |-> <<"a", "l">>],
      [base |-> <<".">>, parent |-> <<>>],
      [base |-> <<>>, parent |-> <<>>] }

DigitChars == <<"0", "1", "2", "3", "4", "5", "6", "7", "8", "9">>

\* str(n) for n >= 0
RECURSIVE IntStr(_)
IntStr(n) ==
    IF n < 10 THEN <<DigitChars[n + 1]>>
    ELSE IntStr(n \div 10) \o <<DigitChars[(n % 10) + 1]>>

\* f"album_{int(time.time())}"
AlbumFallbackName(t) == <<"a", "l", "b", "u", "m", "_">> \o IntStr(t)

\* _build_single_file_info(file_path, piece_size)
build_single_file_info(piece_size) ==
    LET file_size == getsize(<<>>)
        pieces == calculate_pieces(tree[<<>>], piece_size)
    IN  PyDict(<< <<"name", PyStr(path.base)>>,
                  <<"length", PyInt(file_size)>>,
                  <<"piece length", PyInt(piece_size)>>,
                  <<"pieces", PyBytes(pieces)>> >>)

\* The name of a multi-file torrent (lines 237-243)
MultiFileName(t) ==
    LET name1 == IF path.base = <<>> THEN path.parent ELSE path.base
    IN  IF name1 = <<>> \/ name1 = <<".">> THEN AlbumFallbackName(t) ELSE name1

\* Mutant: the pieces are hashed in the order of the walk, before the sort
Mut_build_multi_hash_first(piece_size, walk, t) ==
    LET listed == [i \in 1..Len(walk) |-> FileEntry(walk[i])]
        pieces == calculate_pieces_for_files(listed, piece_size)
    IN  PyDict(<< <<"name", PyStr(MultiFileName(t))>>,
                  <<"files", PyList(SortFiles(listed))>>,
                  <<"piece length", PyInt(piece_size)>>,
                  <<"pieces", PyBytes(pieces)>> >>)

\* _build_multi_file_info(dir_path, piece_size); walk is the order in which
\* os.walk enumerates the files, t the clock reading
build_multi_file_info(piece_size, walk, t) ==
    LET listed == [i \in 1..Len(walk) |-> FileEntry(walk[i])]
        files == SortFiles(listed)
        pieces == calculate_pieces_for_files(files, piece_size)
    IN  PyDict(<< <<"name", PyStr(MultiFileName(t))>>,
                  <<"files", PyList(files)>>,
                  <<"piece length", PyInt(piece_size)>>,
                  <<"pieces", PyBytes(pieces)>> >>)

\* _build_info_dict(path, piece_size)
build_info_dict(piece_size, walk, t) ==
    IF isdir THEN build_multi_file_info(piece_size, walk, t)
    ELSE build_single_file_info(piece_size)

(***************************************************************************)
(* Direct use of the info builder: _build_info_dict called on an existing  *)
(* path with a piece length in bytes.                                      *)
(***************************************************************************)
NoChange == [kind |-> "none", info |-> PyDict(<<>>), piece_size |-> 0, added |-> <<>>]

\* before: the result of the call before the directory was changed, and the
\* change
NotBuilt == [called |-> FALSE, piece_size |-> 0, walk |-> <<>>, info |-> PyDict(<<>>),
             before |-> NoChange]

BuildInfoDict(piece_size, walk) ==
    /\ exists
    /\ ~built.called
    /\ built' = [called |-> TRUE, piece_size |-> piece_size, walk |-> walk,
                 info |-> build_info_dict(piece_size, walk, now),
                 before |-> built.before]
    /\ UNCHANGED <<kind, tree, path, now, bigfiles, sized, bencodepy, outdir, ct, prev, orch, rt, named, par, dirs, hs, net, run>>

(***************************************************************************)
(* The directory changes between two calls of _build_info_dict: a file     *)
(* holding nothing, or a sub-directory holding nothing, is created.        *)
(***************************************************************************)
SegC == <<"c">>

EmptyDirNames == {SegA, SegC}

\* The sub-directories that hold a file
FileDirs == {p[1] : p \in {q \in Files : Len(q) = 2}}

AddEmptyFile(p) ==
    /\ isdir
    /\ built.called
    /\ built.before.kind = "none"
    /\ p \in TreePaths \ Files
    /\ tree' = [q \in Files \cup {p} |-> IF q = p THEN <<>> ELSE tree[q]]
    /\ dirs' = IF Len(p) = 2 THEN dirs \ {p[1]} ELSE dirs
    /\ built' = [NotBuilt EXCEPT !.before = [kind |-> "file", info |-> built.info,
                                             piece_size |-> built.piece_size, added |-> p]]
    /\ UNCHANGED <<kind, path, now, bigfiles, sized, bencodepy, outdir, ct, prev, orch, rt, named, par, hs, net, run>>

AddEmptyDir(d) ==
    /\ isdir
    /\ built.called
    /\ built.before.kind = "none"
    /\ d \in EmptyDirNames \ (dirs \cup FileDirs)
    /\ dirs' = dirs \cup {d}
    /\ built' = [NotBuilt EXCEPT !.before = [kind |-> "dir", info |-> built.info,
                                             piece_size |-> built.piece_size, added |-> <<d>>]]
    /\ UNCHANGED <<kind, tree, path, now, bigfiles, sized, bencodepy, outdir, ct, prev, orch, rt, named, par, hs, net, run>>

(***************************************************************************)
(* The hashing loops step by step (lines 285-298 and 312-345): the file    *)
(* that is open, the offset in it, and the locals pieces and piece_data.   *)
(* handles is the set of input files (by index in the files list) whose    *)
(* handle is open.                                                         *)
(***************************************************************************)
NotHashing ==
    [pc |-> "idle", single |-> FALSE, files |-> <<>>, i |-> 1, pos |-> 0, piece_size |-> 0,
     pieces |-> <<>>, piece_data |-> <<>>, handles |-> {}]

\* Entry of the function: pieces = b"", piece_data = b""
HashEnter(piece_size, walk) ==
    [NotHashing EXCEPT
       !.pc = "loop",
       !.single = ~isdir,
       !.files = IF isdir
                 THEN LET sorted == SortFiles([k \in 1..Len(walk) |-> FileEntry(walk[k])])
                      IN  [k \in 1..Len(sorted) |-> EntryPath(sorted[k])]
                 ELSE << <<>> >>,
       !.piece_size = piece_size]

\* with open(file_path, 'rb') as f: the next file of the list is opened
HashOpen(h) == [h EXCEPT !.pc = "reading", !.pos = 0, !.handles = @ \cup {h.i}]

\* Mutant: the end of a file leaves its handle open
Mut_HashRead_leaks(h) ==
    LET bytes_needed == IF h.single THEN h.piece_size ELSE h.piece_size - Len(h.piece_data)
        chunk == Read(tree[h.files[h.i]], h.pos, bytes_needed)
        piece_data == h.piece_data \o chunk
    IN  IF chunk = <<>>
        THEN [h EXCEPT !.pc = "loop", !.i = @ + 1]
        ELSE IF h.single
        THEN [h EXCEPT !.pos = @ + Len(chunk), !.pieces = Append(@, Sha1Digest(chunk))]
        ELSE IF Len(piece_data) = h.piece_size
        THEN [h EXCEPT !.pos = @ + Len(chunk),
                       !.pieces = Append(@, Sha1Digest(piece_data)),
                       !.piece_data = <<>>]
        ELSE [h EXCEPT !.pos = @ + Len(chunk), !.piece_data = piece_data]

\* Mutant: every read asks for a whole piece
Mut_HashRead_whole_piece(h) ==
    LET chunk == Read(tree[h.files[h.i]], h.pos, h.piece_size)
        piece_data == h.piece_data \o chunk
    IN  IF chunk = <<>>
        THEN [h EXCEPT !.pc = "loop", !.i = @ + 1, !.handles = @ \ {h.i}]
        ELSE IF h.single
        THEN [h EXCEPT !.pos = @ + Len(chunk), !.pieces = Append(@, Sha1Digest(chunk))]
        ELSE IF Len(piece_data) = h.piece_size
        THEN [h EXCEPT !.pos = @ + Len(chunk),
                       !.pieces = Append(@, Sha1Digest(piece_data)),
                       !.piece_data = <<>>]
        ELSE [h EXCEPT !.pos = @ + Len(chunk), !.piece_data = piece_data]

\* One iteration of the while loop: f.read, and either the break that
\* leaves the with block and closes f, or the update of pieces/piece_data
HashRead(h) ==
    LET bytes_needed == IF h.single THEN h.piece_size ELSE h.piece_size - Len(h.piece_data)
        chunk == Read(tree[h.files[h.i]], h.pos, bytes_needed)
        piece_data == h.piece_data \o chunk
    IN  IF chunk = <<>>
        THEN [h EXCEPT !.pc = "loop", !.i = @ + 1, !.handles = @ \ {h.i}]
        ELSE IF h.single
        THEN [h EXCEPT !.pos = @ + Len(chunk), !.pieces = Append(@, Sha1Digest(chunk))]
        ELSE IF Len(piece_data) = h.piece_size
        THEN [h EXCEPT !.pos = @ + Len(chunk),
                       !.pieces = Append(@, Sha1Digest(piece_data)),
                       !.piece_data = <<>>]
        ELSE [h EXCEPT !.pos = @ + Len(chunk), !.piece_data = piece_data]

\* f.read raises: the with block closes f and the exception leaves the
\* function
HashReadFails(h) == [h EXCEPT !.pc = "raised", !.handles = @ \ {h.i}]

\* open raises: no handle was created
HashOpenFails(h) == [h EXCEPT !.pc = "raised"]

\* After the loop: the remaining piece_data is hashed, and pieces returned
HashReturn(h) ==
    [h EXCEPT !.pc = "returned",
              !.pieces = IF h.piece_data # <<>> THEN Append(@, Sha1Digest(h.piece_data)) ELSE @]

H_Enter(piece_size, walk) ==
    /\ exists
    /\ hs.pc = "idle"
    /\ hs' = HashEnter(piece_size, walk)
    /\ UNCHANGED <<kind, tree, path, now, built, bigfiles, sized, bencodepy, outdir, ct, prev, orch, rt, named, par, dirs, net, run>>

H_Open ==
    /\ hs.pc = "loop"
    /\ hs.i <= Len(hs.files)
    /\ hs' = HashOpen(hs)
    /\ UNCHANGED <<kind, tree, path, now, built, bigfiles, sized, bencodepy, outdir, ct, prev, orch, rt, named, par, dirs, net, run>>

H_OpenError ==
    /\ hs.pc = "loop"
    /\ hs.i <= Len(hs.files)
    /\ hs' = HashOpenFails(hs)
    /\ UNCHANGED <<kind, tree, path, now, built, bigfiles, sized, bencodepy, outdir, ct, prev, orch, rt, named, par, dirs, net, run>>

H_Read ==
    /\ hs.pc = "reading"
    /\ hs' = HashRead(hs)
    /\ UNCHANGED <<kind, tree, path, now, built, bigfiles, sized, bencodepy, outdir, ct, prev, orch, rt, named, par, dirs, net, run>>

H_ReadError ==
    /\ hs.pc = "reading"
    /\ hs' = HashReadFails(hs)
    /\ UNCHANGED <<kind, tree, path, now, built, bigfiles, sized, bencodepy, outdir, ct, prev, orch, rt, named, par, dirs, net, run>>

H_Return ==
    /\ hs.pc = "loop"
    /\ hs.i > Len(hs.files)
    /\ hs' = HashReturn(hs)
    /\ UNCHANGED <<kind, tree, path, now, built, bigfiles, sized, bencodepy, outdir, ct, prev, orch, rt, named, par, dirs, net, run>>

(***************************************************************************)
(* The tracker and the torrent client (trackers/yus_tracker.py and         *)
(* clients/qbittorrent.py).  A call is given its environment e: debug is   *)
(* config['debug'], configured is is_configured(), exists and cover say    *)
(* whether the torrent file and the cover file exist, page and page2 are   *)
(* what the login page and the upload page answer, answer is what every    *)
(* other request is answered.  The outcome of a call is the list of HTTP   *)
(* requests it sent, in order, and the value it returned.                  *)
(***************************************************************************)
Outcome(requests, ok, message) == [requests |-> requests, ok |-> ok, message |-> message]

\* YUSTracker._get_csrf_token: the requests it sends
get_csrf_token(e) ==
    IF e.page \in {"token", "exception"} THEN <<"GET /login">>
    ELSE <<"GET /login", "GET /torrents/create">>

\* The outcome of session.post and of the checks of the response
Post(before, request, e, success, refused, failed) ==
    CASE e.answer = "ok" -> Outcome(before \o <<request>>, TRUE, success)
      [] e.answer = "refused" -> Outcome(before \o <<request>>, FALSE, refused)
      [] e.answer = "exception" -> Outcome(before \o <<request>>, FALSE, failed)

\* YUSTracker.upload
yus_upload(e) ==
    IF ~e.configured THEN Outcome(<<>>, FALSE, "Tracker not configured")
    ELSE IF ~e.exists THEN Outcome(<<>>, FALSE, "Torrent file not found")
    ELSE IF e.debug THEN Outcome(<<>>, TRUE, "Debug mode: API upload simulation successful")
    ELSE Post(<<>>, "POST /api/torrents/upload", e, "API upload successful",
              "status", "Exception during API upload")

\* YUSTracker._upload_api
yus_upload_api(e) ==
    IF e.debug THEN Outcome(<<>>, TRUE, "Debug mode: API upload simulation successful")
    ELSE Post(<<>>, "POST /api/torrents/upload", e, "API upload successful",
              "status", "Exception during API upload")

\* YUSTracker._upload_web_form
yus_upload_web_form(e) ==
    LET token == get_csrf_token(e)
    IN  IF e.debug
        THEN Outcome(token, TRUE, "Debug mode: web form upload simulation successful")
        ELSE Post(token, "POST /torrents", e, "Web form upload successful",
                  "status", "Exception during web form upload")

\* QBittorrentClient.login
qbt_login(e) ==
    IF e.debug THEN Outcome(<<>>, TRUE, "")
    ELSE Post(<<>>, "POST /api/v2/auth/login", e, "", "", "")

\* QBittorrentClient._get_torrent_hash
qbt_get_torrent_hash(e) ==
    IF e.debug THEN Outcome(<<>>, TRUE, "1234567890abcdef1234567890abcdef12345678")
    ELSE LET login == qbt_login(e)
         IN  IF ~login.ok THEN Outcome(login.requests, FALSE, "Failed to login to qBittorrent")
             ELSE Post(login.requests, "GET /api/v2/torrents/info", e, "hash",
                       "Failed to get torrent list", "Error getting torrent hash")

\* QBittorrentClient.set_torrent_cover
qbt_set_torrent_cover(e) ==
    IF e.debug THEN Outcome(<<>>, TRUE, "Debug mode: cover set simulation successful")
    ELSE LET login == qbt_login(e)
         IN  IF ~login.ok THEN Outcome(login.requests, FALSE, "Failed to login to qBittorrent")
             ELSE IF ~e.cover THEN Outcome(login.requests, FALSE, "Cover file not found")
             ELSE Post(login.requests, "POST /api/v2/torrents/setCoverArt", e,
                       "Cover set successfully", "Failed to set cover",
                       "Error setting torrent cover")

\* QBittorrentClient.add_torrent
qbt_add_torrent(e) ==
    IF e.debug THEN Outcome(<<>>, TRUE, "Debug mode: torrent add simulation successful")
    ELSE LET login == qbt_login(e)
             added == Post(login.requests, "POST /api/v2/torrents/add", e,
                           "Torrent added successfully", "Failed to add torrent",
                           "Error adding torrent")
             hash == qbt_get_torrent_hash(e)
             cover == qbt_set_torrent_cover(e)
         IN  IF ~login.ok THEN Outcome(login.requests, FALSE, "Failed to login to qBittorrent")
             ELSE IF ~e.exists THEN Outcome(login.requests, FALSE, "Torrent file not found")
             ELSE IF ~added.ok \/ ~e.cover THEN added
             ELSE IF ~hash.ok
             THEN Outcome(added.requests \o hash.requests, TRUE,
                          "Torrent added successfully but couldn't set cover art")
             ELSE IF ~cover.ok
             THEN Outcome(added.requests \o hash.requests \o cover.requests, TRUE,
                          "Torrent added successfully but failed to set cover art")
             ELSE Outcome(added.requests \o hash.requests \o cover.requests, TRUE,
                          "Torrent added successfully")

Methods ==
    {"YUSTracker.upload", "YUSTracker._upload_api", "YUSTracker._upload_web_form",
     "QBittorrentClient.login", "QBittorrentClient.add_torrent",
     "QBittorrentClient.set_torrent_cover"}

Environments ==
    [debug : BOOLEAN, configured : BOOLEAN, exists : BOOLEAN, cover : BOOLEAN,
     page : {"token", "plain", "exception"}, answer : {"ok", "refused", "exception"}]

CallMethod(method, e) ==
    CASE method = "YUSTracker.upload" -> yus_upload(e)
      [] method = "YUSTracker._upload_api" -> yus_upload_api(e)
      [] method = "YUSTracker._upload_web_form" -> yus_upload_web_form(e)
      [] method = "QBittorrentClient.login" -> qbt_login(e)
      [] method = "QBittorrentClient.add_torrent" -> qbt_add_torrent(e)
      [] method = "QBittorrentClient.set_torrent_cover" -> qbt_set_torrent_cover(e)

NoCall == [called |-> FALSE, method |-> "", e |-> [debug |-> FALSE], out |-> Outcome(<<>>, FALSE, "")]

Net_Call(method, e) ==
    /\ ~net.called
    /\ net' = [called |-> TRUE, method |-> method, e |-> e, out |-> CallMethod(method, e)]
    /\ UNCHANGED <<kind, tree, path, now, built, bigfiles, sized, bencodepy, outdir, ct, prev, orch, rt, named, par, dirs, hs, run>>

(***************************************************************************)
(* The piece-size policy.  Sizes reach 8 GiB and more, so a byte count is  *)
(* kept as two limbs: mib whole MiB plus b < 2^20 bytes.                   *)
(***************************************************************************)
MaxBigFiles == 2

\* 1024 * 1024
MiB == 1048576

Big(m, b) == [mib |-> m, b |-> b]

BigOfInt(n) == Big(n \div MiB, n % MiB)

\* total_size += os.path.getsize(file_path)
BigAdd(x, y) == Big(x.mib + y.mib + ((x.b + y.b) \div MiB), (x.b + y.b) % MiB)

RECURSIVE BigSum(_)
BigSum(sizes) == IF sizes = <<>> THEN Big(0, 0) ELSE BigAdd(Head(sizes), BigSum(Tail(sizes)))

\* total_size < m * 1024 * 1024
LessThanMiB(total, m) == total.mib < m

\* total_size <= m * 1024 * 1024
AtMostMiB(total, m) == total.mib < m \/ (total.mib = m /\ total.b = 0)

\* Mutant: the first tier is tested with <= in place of <
Mut_PieceSizeFor_edge(total_size) ==
    IF AtMostMiB(total_size, 50) THEN 16 * 1024
    ELSE IF LessThanMiB(total_size, 150) THEN 32 * 1024
    ELSE IF LessThanMiB(total_size, 350) THEN 64 * 1024
    ELSE IF LessThanMiB(total_size, 512) THEN 128 * 1024
    ELSE IF LessThanMiB(total_size, 1024) THEN 256 * 1024
    ELSE IF LessThanMiB(total_size, 2 * 1024) THEN 512 * 1024
    ELSE IF LessThanMiB(total_size, 4 * 1024) THEN 1024 * 1024
    ELSE IF LessThanMiB(total_size, 8 * 1024) THEN 2 * 1024 * 1024
    ELSE 4 * 1024 * 1024

\* The if/elif chain of _calculate_piece_size (lines 169-186) on total_size
PieceSizeFor(total_size) ==
    IF LessThanMiB(total_size, 50) THEN 16 * 1024
    ELSE IF LessThanMiB(total_size, 150) THEN 32 * 1024
    ELSE IF LessThanMiB(total_size, 350) THEN 64 * 1024
    ELSE IF LessThanMiB(total_size, 512) THEN 128 * 1024
    ELSE IF LessThanMiB(total_size, 1024) THEN 256 * 1024
    ELSE IF LessThanMiB(total_size, 2 * 1024) THEN 512 * 1024
    ELSE IF LessThanMiB(total_size, 4 * 1024) THEN 1024 * 1024
    ELSE IF LessThanMiB(total_size, 8 * 1024) THEN 2 * 1024 * 1024
    ELSE 4 * 1024 * 1024

\* _calculate_piece_size(path), sizes the os.path.getsize of the files that
\* os.walk finds under a directory, or of the file itself
calculate_piece_size(sizes) == PieceSizeFor(BigSum(sizes))

\* Lines 66-70 of create_torrent: 'auto' or None asks for the policy, any
\* other value is a number of KiB
PieceSizeOf(arg, sizes) ==
    IF arg.tag \in {"auto", "None"} THEN calculate_piece_size(sizes)
    ELSE arg.v * 1024

\* The sizes of the files of tree, in walk order
TreeSizes(walk) == [i \in 1..Len(walk) |-> BigOfInt(getsize(walk[i]))]

(***************************************************************************)
(* The piece size create_torrent chooses for a path holding large files:   *)
(* bigfiles are the sizes of the files under the path, sized the result.   *)
(***************************************************************************)
\* The tier edges of the policy, in MiB
TierEdges == {50, 150, 350, 512, 1024, 2048, 4096, 8192}

\* Sizes at, just below and just above every tier edge, halves of the edges
\* (two of them sum to an edge), and small sizes
BigSizes ==
    {Big(0, 0), Big(0, 1), Big(49, 0), Big(9000, 0)}
      \cup {Big(e, 0) : e \in TierEdges}
      \cup {Big(e - 1, MiB - 1) : e \in TierEdges}
      \cup {Big(e, 1) : e \in TierEdges}
      \cup {Big(e \div 2, 0) : e \in TierEdges}

NotSized == [called |-> FALSE, arg |-> [tag |-> "None", v |-> 0], piece_size |-> 0]

ChoosePieceSize(arg) ==
    /\ ~sized.called
    /\ sized' = [called |-> TRUE, arg |-> arg, piece_size |-> PieceSizeOf(arg, bigfiles)]
    /\ UNCHANGED <<kind, tree, path, now, built, bigfiles, bencodepy, outdir, ct, prev, orch, rt, named, par, dirs, hs, net, run>>

(***************************************************************************)
(* bencodepy.encode.  The result is a sequence of tokens: a character per  *)
(* byte, and one token per SHA-1 digest.                                   *)
(***************************************************************************)
\* The characters of a dictionary key
KeyChars(k) ==
    CASE k = "announce" -> <<"a", "n", "n", "o", "u", "n", "c", "e">>
      [] k = "info" -> <<"i", "n", "f", "o">>
      [] k = "creation date" -> <<"c", "r", "e", "a", "t", "i", "o", "n", " ", "d", "a", "t", "e">>
      [] k = "created by" -> <<"c", "r", "e", "a", "t", "e", "d", " ", "b", "y">>
      [] k = "comment" -> <<"c", "o", "m", "m", "e", "n", "t">>
      [] k = "name" -> <<"n", "a", "m", "e">>
      [] k = "length" -> <<"l", "e", "n", "g", "t", "h">>
      [] k = "piece length" -> <<"p", "i", "e", "c", "e", " ", "l", "e", "n", "g", "t", "h">>
      [] k = "pieces" -> <<"p", "i", "e", "c", "e", "s">>
      [] k = "files" -> <<"f", "i", "l", "e", "s">>
      [] k = "path" -> <<"p", "a", "t", "h">>
      [] k = "source" -> <<"s", "o", "u", "r", "c", "e">>
      [] k = "private" -> <<"p", "r", "i", "v", "a", "t", "e">>

\* len(b) of a bytes value holding characters and digests
RECURSIVE ByteLen(_)
ByteLen(s) ==
    IF s = <<>> THEN 0
    ELSE (IF Head(s) \in Char THEN 1 ELSE DigestSize) + ByteLen(Tail(s))

\* The pairs of a dict sorted by key, as bencodepy sorts them (raw byte order)
RECURSIVE InsertItem(_, _)
InsertItem(sorted, kv) ==
    IF sorted = <<>> THEN <<kv>>
    ELSE IF StrLess(KeyChars(kv[1]), KeyChars(Head(sorted)[1])) THEN <<kv>> \o sorted
    ELSE <<Head(sorted)>> \o InsertItem(Tail(sorted), kv)

\* Mutant: the items are encoded in the order of insertion
Mut_SortItems_insertion(items) == items

RECURSIVE SortItems(_)
SortItems(items) ==
    IF items = <<>> THEN <<>>
    ELSE InsertItem(SortItems(SubSeq(items, 1, Len(items) - 1)), items[Len(items)])

RECURSIVE Bencode(_)
RECURSIVE BencodeAll(_)
RECURSIVE BencodeItems(_)

BencodeAll(l) == IF l = <<>> THEN <<>> ELSE Bencode(Head(l)) \o BencodeAll(Tail(l))

BencodeItems(items) ==
    IF items = <<>> THEN <<>>
    ELSE Bencode(PyStr(KeyChars(Head(items)[1]))) \o Bencode(Head(items)[2])
           \o BencodeItems(Tail(items))

\* bencodepy.encode(value)
Bencode(x) ==
    CASE x.t = "int" ->
           <<"i">> \o (IF x.v < 0 THEN <<"-">> \o IntStr(-x.v) ELSE IntStr(x.v)) \o <<"e">>
      [] x.t \in {"str", "bytes"} -> IntStr(ByteLen(x.v)) \o <<":">> \o x.v
      [] x.t = "list" -> <<"l">> \o BencodeAll(x.v) \o <<"e">>
      [] x.t = "dict" -> <<"d">> \o BencodeItems(SortItems(x.v)) \o <<"e">>

(***************************************************************************)
(* TorrentCreator.__init__ and the function create_torrent (lines 39-120). *)
(* A configuration is a record; a field holds NoneVal when the key is      *)
(* absent.  Python's None/True/False for `private` are "None", "True" and  *)
(* "False".                                                                *)
(***************************************************************************)
MaxClock == 1
MaxBuilds == 2

\* torrent_config.get('comment', 'Created with Music-Upload-Assistant')
default_comment(cfg) ==
    IF cfg.torrent_comment = NoneVal
    THEN <<"C", "r", "e", "a", "t", "e", "d", " ", "w", "i", "t", "h", " ", "M", "u", "s", "i", "c", "-", "U", "p", "l", "o", "a", "d", "-", "A", "s", "s", "i", "s", "t", "a", "n", "t">>
    ELSE cfg.torrent_comment

\* torrent_config.get('source', 'MUA')
default_source(cfg) ==
    IF cfg.torrent_source = NoneVal THEN <<"M", "U", "A">> ELSE cfg.torrent_source

\* torrent_config.get('private', True)
default_private(cfg) ==
    IF cfg.torrent_private = "None" THEN "True" ELSE cfg.torrent_private

\* announce_url or torrent_config.get('announce_url') or config.get('announce_url')
ResolveAnnounce(cfg, announce_url) ==
    Or(Or(announce_url, cfg.torrent_announce_url), cfg.announce_url)

Raise(c, err) == [c EXCEPT !.pc = "raised", !.err = err]

\* An OSError raised by a statement of the given block ("hash": the open or
\* read of a content file, lines 288-290 and 321-325; "write": f.write of the
\* output file, line 114)
RaiseOSError(c, block) == [c EXCEPT !.pc = "raised", !.err = "OSError", !.raised_at = block]

\* Mutant: the announce URL is resolved but not checked
Mut_Validate_unchecked(c) ==
    IF ~bencodepy THEN Raise(c, "ImportError")
    ELSE IF ~exists THEN Raise(c, "FileNotFoundError")
    ELSE [c EXCEPT !.pc = "validated",
                   !.announce_url = ResolveAnnounce(c.config, c.args.announce_url)]

\* Lines 43-58: the checks before any work
Validate(c) ==
    IF ~bencodepy THEN Raise(c, "ImportError")
    ELSE IF ~exists THEN Raise(c, "FileNotFoundError")
    ELSE LET announce_url == ResolveAnnounce(c.config, c.args.announce_url)
         IN  IF ~Truthy(announce_url) THEN Raise(c, "ValueError")
             ELSE [c EXCEPT !.pc = "validated", !.announce_url = announce_url]

\* The sizes _calculate_piece_size adds up: of the walked files, or of the file
PathSizes(walk) == IF isdir THEN TreeSizes(walk) ELSE <<BigOfInt(getsize(<<>>))>>

\* Lines 60-72: defaults and the piece size
SizeStep(c, walk) ==
    LET auto == c.args.piece_size.tag \in {"auto", "None"}
    IN  [c EXCEPT
           !.pc = "sized",
           !.source = Or(c.args.source, default_source(c.config)),
           !.comment = Or(c.args.comment, default_comment(c.config)),
           !.private = IF c.args.private # "None" THEN c.args.private
                       ELSE default_private(c.config),
           !.created_by = Or(c.args.created_by, <<"M", "u", "s", "i", "c", "-", "U", "p", "l", "o", "a", "d", "-", "A", "s", "s", "i", "s", "t", "a", "n", "t">>),
           !.piece_size = PieceSizeOf(c.args.piece_size, PathSizes(walk)),
           !.effects = IF auto /\ Files # {} THEN @ \cup {"getsize"} ELSE @]

\* Whether the info builder reads the clock for the name (line 243)
NameReadsClock ==
    isdir /\ (IF path.base = <<>> THEN path.parent ELSE path.base) \in {<<>>, <<".">>}

\* Line 75: info = self._build_info_dict(path, piece_size)
InfoStep(c, walk, t) ==
    [c EXCEPT
       !.pc = "built",
       !.info = build_info_dict(c.piece_size, walk, t),
       !.clock = IF NameReadsClock THEN @ \cup {t} ELSE @,
       !.effects = IF Files # {} THEN @ \cup {"getsize", "open"} ELSE @]

\* Mutant: the error of a content file is swallowed and the build goes on
Mut_InfoStepFails_swallowed(c) ==
    [c EXCEPT !.pc = "assembled", !.err = "OSError", !.raised_at = "hash",
              !.effects = @ \cup {"getsize", "open"}]

\* Line 75 when the open or a read of a content file raises: nothing catches
\* the error inside create_torrent, the call ends there
InfoStepFails(c) ==
    [RaiseOSError(c, "hash") EXCEPT !.effects = @ \cup {"getsize", "open"}]

\* Lines 77-92: the metainfo dictionary
AssembleStep(c, t) ==
    LET info1 == IF Truthy(c.source) THEN DSet(c.info, "source", PyStr(c.source))
                 ELSE c.info
        info2 == IF c.private = "True" THEN DSet(info1, "private", PyInt(1)) ELSE info1
    IN  [c EXCEPT
           !.pc = "assembled",
           !.info = info2,
           !.clock = @ \cup {t},
           !.metainfo = PyDict(<< <<"announce", PyStr(c.announce_url)>>,
                                  <<"info", info2>>,
                                  <<"creation date", PyInt(t)>>,
                                  <<"created by", PyStr(c.created_by)>>,
                                  <<"comment", PyStr(c.comment)>> >>)]

(***************************************************************************)
(* Output naming and the write (lines 94-117).                             *)
(***************************************************************************)
\* invalid_chars = r'<>:"/\\|?*' (the double quote and the backslash are not
\* characters of the model's strings)
InvalidChars == {"<", ">", ":", "/", "|", "?", "*"}

\* filename.replace(char, '_') for every invalid character
ReplaceInvalid(s) == [i \in 1..Len(s) |-> IF s[i] \in InvalidChars THEN "_" ELSE s[i]]

\* filename.strip('. ')
RECURSIVE LStrip(_)
LStrip(s) == IF s # <<>> /\ Head(s) \in {".", " "} THEN LStrip(Tail(s)) ELSE s

RECURSIVE RStrip(_)
RStrip(s) ==
    IF s # <<>> /\ s[Len(s)] \in {".", " "} THEN RStrip(SubSeq(s, 1, Len(s) - 1)) ELSE s

\* _sanitize_filename(filename), t the clock reading
sanitize_filename(filename, t) ==
    LET stripped == RStrip(LStrip(ReplaceInvalid(filename)))
    IN  IF stripped = <<>> THEN AlbumFallbackName(t) ELSE stripped

\* os.path.splitext(name)[0]: the name up to its last dot, unless only dots
\* come before that dot
SplitExtRoot(name) ==
    LET dots == {i \in 1..Len(name) : name[i] = "."}
        last == CHOOSE i \in dots : \A j \in dots : j <= i
    IN  IF dots # {} /\ (\E j \in 1..(last - 1) : name[j] # ".")
        THEN SubSeq(name, 1, last - 1)
        ELSE name

\* Mutant: the base name is used as it is
Mut_OutputBaseName_unsanitized(t) ==
    LET base0 == IF isdir THEN Or(path.base, path.parent) ELSE SplitExtRoot(path.base)
    IN  IF base0 = <<>> \/ base0 = <<".">> THEN AlbumFallbackName(t) ELSE base0

\* Lines 95-103: the base name of the output file
OutputBaseName(t) ==
    LET base0 == IF isdir THEN Or(path.base, path.parent) ELSE SplitExtRoot(path.base)
        base1 == IF base0 = <<>> \/ base0 = <<".">> THEN AlbumFallbackName(t) ELSE base0
    IN  sanitize_filename(base1, t)

\* Whether lines 100-103 read the clock
OutputNameReadsClock ==
    LET base0 == IF isdir THEN Or(path.base, path.parent) ELSE SplitExtRoot(path.base)
    IN  \/ base0 = <<>> \/ base0 = <<".">>
        \/ RStrip(LStrip(ReplaceInvalid(base0))) = <<>>

DotTorrent == <<".", "t", "o", "r", "r", "e", "n", "t">>

\* The files of the output directory with bytes data written at name
WriteFile(files, name, data) == {f \in files : f[1] # name} \cup {<<name, data>>}

\* The content of the file called name, None when there is no such file
FileAt(files, name) ==
    IF \E f \in files : f[1] = name
    THEN (CHOOSE f \in files : f[1] = name)[2]
    ELSE NoneVal

\* Mutant: the info dictionary alone is encoded
Mut_OpenStep_encodes_info(c, t) ==
    [c EXCEPT
       !.pc = "opened",
       !.clock = IF OutputNameReadsClock THEN @ \cup {t} ELSE @,
       !.effects = @ \cup {"makedirs", "truncate"},
       !.data = Bencode(DGet(c.metainfo, "info")),
       !.output_name = OutputBaseName(t) \o DotTorrent]

\* Lines 94-113: output name, os.makedirs, bencodepy.encode and
\* open(output_path, 'wb'), which creates the file or truncates it
OpenStep(c, t) ==
    LET output_name == OutputBaseName(t) \o DotTorrent
    IN  [c EXCEPT
           !.pc = "opened",
           !.clock = IF OutputNameReadsClock THEN @ \cup {t} ELSE @,
           !.effects = @ \cup {"makedirs", "truncate"},
           !.data = Bencode(c.metainfo),
           !.output_name = output_name]

\* Lines 114-117: f.write(encoded_data), the file is closed, return output_path
FinishWrite(c) ==
    [c EXCEPT !.pc = "returned", !.effects = @ \cup {"write"}, !.result = c.output_name]

\* Line 114 when f.write raises: the with statement closes the file, the
\* except clause of line 118 logs and re-raises
WriteFails(c) == RaiseOSError(c, "write")

\* How many bytes a failing f.write has put into the file: some, not all
PartialWrites(data) == {Len(data) \div 2}

\* Lines 94-117: output name, os.makedirs, bencodepy.encode, write, return
WriteStep(c, t) == FinishWrite(OpenStep(c, t))

NoConfig ==
    [torrent_announce_url |-> NoneVal, announce_url |-> NoneVal,
     torrent_source |-> NoneVal, torrent_comment |-> NoneVal,
     torrent_private |-> "None", tracker_configured |-> FALSE,
     tracker_announce_url |-> NoneVal, tracker_source_name |-> NoneVal]

NoArgs ==
    [announce_url |-> NoneVal, source |-> NoneVal, comment |-> NoneVal,
     private |-> "None", created_by |-> NoneVal,
     piece_size |-> [tag |-> "None", v |-> 0]]

Idle ==
    [pc |-> "idle", config |-> NoConfig, args |-> NoArgs, announce_url |-> NoneVal,
     source |-> NoneVal, comment |-> NoneVal, private |-> "None",
     created_by |-> NoneVal, piece_size |-> 0, info |-> PyDict(<<>>),
     metainfo |-> PyDict(<<>>), data |-> <<>>, result |-> NoneVal, err |-> "",
     clock |-> {}, effects |-> {}, raised_at |-> "", output_name |-> NoneVal,
     outdir0 |-> {}]

(***************************************************************************)
(* The builder as a state machine: one action per block of create_torrent. *)
(* ct holds the locals of the running call, its clock readings and the     *)
(* file-system effects it has had; prev remembers the previous build.      *)
(***************************************************************************)
inputVars == <<kind, tree, path, bigfiles, bencodepy>>
otherOps == <<built, sized, rt, named, par>>

\* The configurations and arguments the builder is called with
Configs ==
    {[NoConfig EXCEPT !.torrent_announce_url = ta, !.announce_url = ga] :
        ta \in {NoneVal, <<>>, <<"T">>}, ga \in {NoneVal, <<"G">>}}

PieceSizeArgs ==
    {[tag |-> "None", v |-> 0], [tag |-> "auto", v |-> 0]}
      \cup {[tag |-> "int", v |-> 1]}

Args ==
    {[NoArgs EXCEPT !.announce_url = a, !.source = s, !.piece_size = ps] :
        a \in {NoneVal, <<>>, <<"A">>}, s \in {NoneVal, <<"S">>}, ps \in PieceSizeArgs}

NoPrev == [n |-> 0, config |-> NoConfig, args |-> NoArgs, data |-> <<>>,
           result |-> NoneVal, clock |-> {}]

OrchIdle ==
    [pc |-> "idle", config |-> NoConfig,
     options |-> [create_torrent |-> FALSE, tracker |-> NoneVal, announce_url |-> NoneVal],
     announce_url |-> NoneVal, source |-> NoneVal, torrent_path |-> NoneVal, err |-> ""]

\* No call of create_tracker_specific_torrent yet
RtIdle ==
    [pc |-> "idle", original |-> NoneVal, tracker_id |-> NoneVal,
     announce_url |-> NoneVal, source |-> NoneVal, result |-> NoneVal, err |-> "",
     effects |-> {}, outdir0 |-> {}, again |-> FALSE]

\* No direct call of _sanitize_filename yet
NotNamed == [called |-> FALSE, filename |-> <<>>, result |-> <<>>]

\* No calls running side by side
NoPar == <<>>

\* create_torrent(path, ...) is entered with self a TorrentCreator(cfg)
CT_Call(cfg, args) ==
    /\ ct.pc = "idle"
    /\ orch.pc = "idle"
    /\ ct' = Validate([Idle EXCEPT !.config = cfg, !.args = args,
                                   !.outdir0 = outdir.files])
    /\ UNCHANGED <<inputVars, otherOps, now, outdir, prev, orch, dirs, hs, net, run>>

CT_Size(walk) ==
    /\ ct.pc = "validated"
    /\ ct' = SizeStep(ct, walk)
    /\ UNCHANGED <<inputVars, otherOps, now, outdir, prev, orch, dirs, hs, net, run>>

CT_Info(walk) ==
    /\ ct.pc = "sized"
    /\ ct' = InfoStep(ct, walk, now)
    /\ UNCHANGED <<inputVars, otherOps, now, outdir, prev, orch, dirs, hs, net, run>>

CT_Assemble ==
    /\ ct.pc = "built"
    /\ ct' = AssembleStep(ct, now)
    /\ UNCHANGED <<inputVars, otherOps, now, outdir, prev, orch, dirs, hs, net, run>>

\* A content file cannot be opened or read while the pieces are hashed
CT_InfoError ==
    /\ ct.pc = "sized"
    /\ Files # {}
    /\ ct' = InfoStepFails(ct)
    /\ UNCHANGED <<inputVars, otherOps, now, outdir, prev, orch, dirs, hs, net, run>>

CT_Open ==
    /\ ct.pc = "assembled"
    /\ ct' = OpenStep(ct, now)
    /\ outdir' = [exists |-> TRUE, files |-> WriteFile(outdir.files, ct'.output_name, <<>>)]
    /\ UNCHANGED <<inputVars, otherOps, now, prev, orch, dirs, hs, net, run>>

CT_Write ==
    /\ ct.pc = "opened"
    /\ ct' = FinishWrite(ct)
    /\ outdir' = [outdir EXCEPT !.files = WriteFile(@, ct.output_name, ct.data)]
    /\ UNCHANGED <<inputVars, otherOps, now, prev, orch, dirs, hs, net, run>>

\* f.write fails (the disk is full, say) after n bytes
CT_WriteError(n) ==
    /\ ct.pc = "opened"
    /\ ct' = WriteFails(ct)
    /\ outdir' = [outdir EXCEPT !.files = WriteFile(@, ct.output_name, SubSeq(ct.data, 1, n))]
    /\ UNCHANGED <<inputVars, otherOps, now, prev, orch, dirs, hs, net, run>>

\* The same call once more: same path, same arguments, same configuration
CT_Again ==
    /\ ct.pc = "returned"
    /\ prev.n + 1 < MaxBuilds
    /\ prev' = [n |-> prev.n + 1, config |-> ct.config, args |-> ct.args,
                data |-> ct.data, result |-> ct.result, clock |-> ct.clock]
    /\ ct' = Validate([Idle EXCEPT !.config = ct.config, !.args = ct.args,
                                   !.outdir0 = outdir.files])
    /\ UNCHANGED <<inputVars, otherOps, now, outdir, orch, dirs, hs, net, run>>

\* A second of wall-clock time passes
Tick ==
    /\ now < MaxClock
    /\ now' = now + 1
    /\ UNCHANGED <<inputVars, otherOps, outdir, ct, prev, orch, dirs, hs, net, run>>

(***************************************************************************)
(* The torrent step of process_file and process_album                      *)
(* (music_upload_assistant.py lines 264-329 and 509-575).                  *)
(***************************************************************************)
\* The attributes a TorrentCreator instance has: the methods defined in the
\* class body and the fields __init__ sets.  create_torrent is defined by a
\* def statement inside __init__ (line 39 is indented under it), so it is a
\* local name of the constructor and not an attribute.
TorrentCreatorAttrs ==
    {"__init__", "_sanitize_filename", "_calculate_piece_size", "_build_info_dict",
     "_build_single_file_info", "_build_multi_file_info", "_calculate_pieces",
     "_calculate_pieces_for_files", "create_tracker_specific_torrent",
     "config", "torrent_config", "default_comment", "default_source",
     "default_private"}

\* The parameters of the function create_torrent (lines 39-42)
CreateTorrentParams ==
    {"self", "path", "announce_url", "source", "comment", "private", "created_by",
     "piece_size"}

\* The keywords process_file and process_album pass (lines 288-295, 533-541)
OrchCallKeywords == {"announce_url", "source", "comment", "piece_size", "custom_name"}

Options ==
    {[create_torrent |-> c, tracker |-> tr, announce_url |-> a] :
        c \in BOOLEAN, tr \in {NoneVal, <<"y">>}, a \in {NoneVal, <<"O">>}}

\* get_tracker_config(config, tracker_id) finds a non-empty dict
OrchConfigs ==
    {[NoConfig EXCEPT !.torrent_announce_url = ta, !.tracker_configured = tc,
                      !.tracker_announce_url = tra, !.tracker_source_name = <<"Y">>] :
        ta \in {NoneVal, <<"T">>}, tc \in BOOLEAN, tra \in {NoneVal, <<>>, <<"Y">>}}

\* Lines 270-278: the announce URL and source handed to create_torrent
OrchAnnounce(cfg, options) ==
    IF Truthy(options.tracker) /\ cfg.tracker_configured
    THEN (IF cfg.tracker_announce_url # NoneVal THEN cfg.tracker_announce_url
          ELSE options.announce_url)
    ELSE options.announce_url

OrchSource(cfg, options) ==
    IF Truthy(options.tracker) /\ cfg.tracker_configured
    THEN cfg.tracker_source_name
    ELSE NoneVal

\* create_torrent run from entry to return or raise
RunCreateTorrent(cfg, args, walk, t) ==
    LET c1 == Validate([Idle EXCEPT !.config = cfg, !.args = args])
    IN  IF c1.pc = "raised" THEN c1
        ELSE WriteStep(AssembleStep(InfoStep(SizeStep(c1, walk), walk, t), t), t)

\* The outcome of torrent_creator.create_torrent(path, announce_url=..., ...):
\* the attribute is looked up first, then the keywords are bound
OrchCallOutcome(cfg, announce_url, source, walk, t) ==
    IF "create_torrent" \notin TorrentCreatorAttrs THEN Raise(Idle, "AttributeError")
    ELSE IF ~(OrchCallKeywords \subseteq CreateTorrentParams) THEN Raise(Idle, "TypeError")
    ELSE RunCreateTorrent(cfg,
             [NoArgs EXCEPT !.announce_url = announce_url, !.source = source,
                            !.piece_size = [tag |-> "auto", v |-> 0]],
             walk, t)

\* process_file reaches its torrent step once the file's metadata has been
\* read, process_album once a track of the album has been processed
OrchReachesTorrentStep == exists /\ Files # {}

\* if options.get('create_torrent', False) is false the step is skipped
Orch_Skip(cfg, options) ==
    /\ orch.pc = "idle"
    /\ ct.pc = "idle"
    /\ OrchReachesTorrentStep
    /\ ~options.create_torrent
    /\ orch' = [OrchIdle EXCEPT !.pc = "done", !.config = cfg, !.options = options]
    /\ UNCHANGED <<inputVars, otherOps, now, outdir, ct, prev, dirs, hs, net, run>>

\* Lines 267-285 (512-530): the creator and the tracker parameters
Orch_Prepare(cfg, options) ==
    /\ orch.pc = "idle"
    /\ ct.pc = "idle"
    /\ OrchReachesTorrentStep
    /\ options.create_torrent
    /\ orch' = [OrchIdle EXCEPT !.pc = "prepared", !.config = cfg, !.options = options,
                                !.announce_url = OrchAnnounce(cfg, options),
                                !.source = OrchSource(cfg, options)]
    /\ UNCHANGED <<inputVars, otherOps, now, outdir, ct, prev, dirs, hs, net, run>>

\* Lines 288-299 (533-545) and the except clause of line 328 (574)
Orch_Call(walk) ==
    /\ orch.pc = "prepared"
    /\ LET c == OrchCallOutcome(orch.config, orch.announce_url, orch.source, walk, now)
       IN  IF c.pc = "returned"
           THEN /\ orch' = [orch EXCEPT !.pc = "done", !.torrent_path = c.result]
                /\ outdir' = [exists |-> TRUE,
                              files |-> WriteFile(outdir.files, c.result, c.data)]
           ELSE /\ orch' = [orch EXCEPT !.pc = "done", !.err = c.err]
                /\ UNCHANGED outdir
    /\ UNCHANGED <<inputVars, otherOps, now, ct, prev, dirs, hs, net, run>>

(***************************************************************************)
(* process_file and process_album from the torrent step on                 *)
(* (music_upload_assistant.py lines 264-379 and 415-619).  A metadata      *)
(* dict is kept as its keys torrent_path and uploaded ("unset" when the    *)
(* key is absent), with the calls of create_torrent and of upload() that   *)
(* were made for it, in order, and the files of the output directory.      *)
(***************************************************************************)
MaxTracks == 2

NoMeta ==
    [torrent_path |-> NoneVal, uploaded |-> "unset", created |-> FALSE, events |-> <<>>,
     files |-> {}]

\* Mutant: the tracks are processed with the options as they were passed
Mut_TrackOptions_as_passed(options) == options

\* Lines 415-419: options.copy() with create_torrent and upload disabled
TrackOptions(options) == [options EXCEPT !.create_torrent = FALSE, !.upload = FALSE]

\* Lines 264-329 (509-575): the torrent step on a metadata dict
TorrentStepOf(m, options, cfg, walk, t) ==
    IF ~options.create_torrent THEN m
    ELSE LET c == OrchCallOutcome(cfg, OrchAnnounce(cfg, options), OrchSource(cfg, options),
                                  walk, t)
         IN  IF c.pc = "returned"
             THEN [m EXCEPT !.events = Append(@, "create_torrent"),
                            !.created = TRUE,
                            !.torrent_path = c.result,
                            !.files = WriteFile(@, c.result, c.data)]
             ELSE [m EXCEPT !.events = Append(@, "create_torrent")]

\* Mutant: the upload does not look at metadata['torrent_path']
Mut_UploadStepOf_unchecked(m, options, env) ==
    IF ~(options.upload /\ Truthy(options.tracker)) THEN m
    ELSE IF env.manager = "raises" THEN [m EXCEPT !.uploaded = "False"]
    ELSE IF env.manager = "none" THEN [m EXCEPT !.uploaded = "False"]
    ELSE [m EXCEPT !.events = Append(@, "upload"),
                   !.uploaded = IF env.answer = "ok" THEN "True" ELSE "False"]

\* Lines 331-373 (577-619): the upload step on a metadata dict
UploadStepOf(m, options, env) ==
    IF ~(options.upload /\ Truthy(options.tracker)) THEN m
    ELSE IF env.manager = "raises" THEN [m EXCEPT !.uploaded = "False"]
    ELSE IF env.manager = "none" THEN [m EXCEPT !.uploaded = "False"]
    ELSE IF Truthy(m.torrent_path) /\ FileAt(m.files, m.torrent_path) # NoneVal
    THEN [m EXCEPT !.events = Append(@, "upload"),
                   !.uploaded = IF env.answer = "ok" THEN "True" ELSE "False"]
    ELSE m

\* process_file once the metadata has been read
process_file(options, cfg, env, walk, t) ==
    UploadStepOf(TorrentStepOf(NoMeta, options, cfg, walk, t), options, env)

NoRun ==
    [pc |-> "idle", mode |-> "", passed |-> NoneVal, options |-> NoneVal,
     track_options |-> NoneVal, config |-> NoConfig, env |-> NoneVal, ntracks |-> 0,
     processed |-> 0, tracks |-> <<>>, m |-> NoMeta]

\* process_file(file_path, options, config)
Run_File(options, cfg, env) ==
    /\ run.pc = "idle"
    /\ ~isdir
    /\ OrchReachesTorrentStep
    /\ run' = [NoRun EXCEPT !.pc = "returned", !.mode = "file", !.passed = options,
                            !.options = options, !.config = cfg, !.env = env,
                            !.m = process_file(options, cfg, env, <<>>, now)]
    /\ UNCHANGED <<kind, tree, path, now, built, bigfiles, sized, bencodepy, outdir, ct, prev, orch, rt, named, par, dirs, hs, net>>

\* process_album(album_path, options, config) up to the loop over the tracks
Run_Album(options, cfg, env, n) ==
    /\ run.pc = "idle"
    /\ isdir
    /\ OrchReachesTorrentStep
    /\ run' = [NoRun EXCEPT !.pc = "tracks", !.mode = "album", !.passed = options,
                            !.options = options, !.track_options = TrackOptions(options),
                            !.config = cfg, !.env = env, !.ntracks = n]
    /\ UNCHANGED <<kind, tree, path, now, built, bigfiles, sized, bencodepy, outdir, ct, prev, orch, rt, named, par, dirs, hs, net>>

\* Lines 424-430: process_file on the next track; ok is whether the track's
\* metadata could be read (result['success'])
Run_Track(ok) ==
    /\ run.pc = "tracks"
    /\ run.processed < run.ntracks
    /\ run' = [run EXCEPT
                 !.processed = @ + 1,
                 !.tracks = IF ok
                            THEN Append(@, process_file(run.track_options, run.config,
                                                        run.env, <<>>, now))
                            ELSE @]
    /\ UNCHANGED <<kind, tree, path, now, built, bigfiles, sized, bencodepy, outdir, ct, prev, orch, rt, named, par, dirs, hs, net>>

\* Lines 432-436: no track could be processed
Run_NoTracks ==
    /\ run.pc = "tracks"
    /\ run.processed = run.ntracks
    /\ run.tracks = <<>>
    /\ run' = [run EXCEPT !.pc = "failed"]
    /\ UNCHANGED <<kind, tree, path, now, built, bigfiles, sized, bencodepy, outdir, ct, prev, orch, rt, named, par, dirs, hs, net>>

\* Lines 509-575: the torrent step of the album
Run_AlbumTorrent(walk) ==
    /\ run.pc = "tracks"
    /\ run.processed = run.ntracks
    /\ run.tracks # <<>>
    /\ run' = [run EXCEPT !.pc = "torrent",
                          !.m = TorrentStepOf(@, run.options, run.config, walk, now)]
    /\ UNCHANGED <<kind, tree, path, now, built, bigfiles, sized, bencodepy, outdir, ct, prev, orch, rt, named, par, dirs, hs, net>>

\* Lines 577-626: the upload step of the album, and the return
Run_AlbumUpload ==
    /\ run.pc = "torrent"
    /\ run' = [run EXCEPT !.pc = "returned",
                          !.m = UploadStepOf(@, run.options, run.env)]
    /\ UNCHANGED <<kind, tree, path, now, built, bigfiles, sized, bencodepy, outdir, ct, prev, orch, rt, named, par, dirs, hs, net>>

(***************************************************************************)
(* sanitize_filename of utils/file_utils.py (lines 358-388); the function  *)
(* of the same name in utils/naming.py (lines 138-167) has the same body.  *)
(***************************************************************************)
\* if len(name) > 240
NameLimit == 240

\* illegal_chars = r'[\\/*?:"<>|]' (the double quote and the backslash are
\* not characters of the model's strings)
IllegalChars == {"/", "*", "?", ":", "<", ">", "|"}

\* The characters \s matches
Whitespace == {" ", "\t"}

\* re.sub(illegal_chars, '_', name)
ReplaceIllegal(s) == [i \in 1..Len(s) |-> IF s[i] \in IllegalChars THEN "_" ELSE s[i]]

\* re.sub(r'\s+', ' ', name): every run of whitespace becomes one space.
\* The string is handled in halves: a run that spans both halves is one run
RECURSIVE CollapseSpaces(_)
CollapseSpaces(s) ==
    IF s = <<>> THEN <<>>
    ELSE IF Len(s) = 1 THEN (IF s[1] \in Whitespace THEN <<" ">> ELSE s)
    ELSE LET half == Len(s) \div 2
             left == CollapseSpaces(SubSeq(s, 1, half))
             right == CollapseSpaces(SubSeq(s, half + 1, Len(s)))
         IN  IF s[half] \in Whitespace /\ s[half + 1] \in Whitespace
             THEN left \o Tail(right)
             ELSE left \o right

\* sanitize_filename(name)
utils_sanitize_filename(name) ==
    LET stripped == RStrip(LStrip(CollapseSpaces(ReplaceIllegal(name))))
        limited == IF Len(stripped) > NameLimit THEN SubSeq(stripped, 1, NameLimit)
                   ELSE stripped
    IN  IF limited = <<>> THEN <<"U", "n", "n", "a", "m", "e", "d">> ELSE limited

\* sanitize_filename called with a string
UtilsSanitizeFilename ==
    /\ ~named.called
    /\ named' = [named EXCEPT !.called = TRUE,
                              !.result = utils_sanitize_filename(named.filename)]
    /\ UNCHANGED <<kind, tree, path, now, built, bigfiles, sized, bencodepy, outdir, ct, prev, orch, rt, par, dirs, hs, net, run>>

(***************************************************************************)
(* bencodepy.decode and create_tracker_specific_torrent (lines 347-393).   *)
(***************************************************************************)
IsDigit(c) == \E d \in 1..10 : DigitChars[d] = c

DigitOf(c) == (CHOOSE d \in 1..10 : DigitChars[d] = c) - 1

\* The decimal number that starts at s[i]: its value and the index after it
RECURSIVE ParseNat(_, _, _)
ParseNat(s, i, acc) ==
    IF i <= Len(s) /\ IsDigit(s[i]) THEN ParseNat(s, i + 1, acc * 10 + DigitOf(s[i]))
    ELSE [v |-> acc, next |-> i]

\* The index after the n bytes that start at s[i]
RECURSIVE TakeBytes(_, _, _)
TakeBytes(s, i, n) ==
    IF n <= 0 THEN i
    ELSE TakeBytes(s, i + 1, n - (IF s[i] \in Char THEN 1 ELSE DigestSize))

\* The keys of a metainfo file
MetainfoKeys ==
    {"announce", "info", "creation date", "created by", "comment", "name", "length",
     "piece length", "pieces", "files", "path", "source", "private"}

\* The key that is spelled with the given characters
KeyName(chars) == CHOOSE k \in MetainfoKeys : KeyChars(k) = chars

\* The value that starts at s[i] and the index after it.  Every byte string
\* is decoded to bytes, the keys of a dict too
RECURSIVE Bdecode(_, _)
RECURSIVE BdecodeList(_, _, _)
RECURSIVE BdecodeDict(_, _, _)

BdecodeList(s, i, acc) ==
    IF s[i] = "e" THEN [v |-> PyList(acc), next |-> i + 1]
    ELSE LET x == Bdecode(s, i) IN BdecodeList(s, x.next, Append(acc, x.v))

BdecodeDict(s, i, acc) ==
    IF s[i] = "e" THEN [v |-> PyDict(acc), next |-> i + 1]
    ELSE LET k == Bdecode(s, i)
             x == Bdecode(s, k.next)
         IN  BdecodeDict(s, x.next, Append(acc, <<KeyName(k.v.v), x.v>>))

Bdecode(s, i) ==
    CASE s[i] = "i" ->
           IF s[i + 1] = "-"
           THEN LET n == ParseNat(s, i + 2, 0) IN [v |-> PyInt(-n.v), next |-> n.next + 1]
           ELSE LET n == ParseNat(s, i + 1, 0) IN [v |-> PyInt(n.v), next |-> n.next + 1]
      [] s[i] = "l" -> BdecodeList(s, i + 1, <<>>)
      [] s[i] = "d" -> BdecodeDict(s, i + 1, <<>>)
      [] OTHER ->
           LET n == ParseNat(s, i, 0)
               end == TakeBytes(s, n.next + 1, n.v)
           IN  [v |-> PyBytes(SubSeq(s, n.next + 1, end - 1)), next |-> end]

\* bencodepy.decode(torrent_data)
decode(data) == Bdecode(data, 1).v

\* Mutant: the re-targeted torrent is written over the original
Mut_RetargetName_in_place(original, tracker_id) == original

\* Lines 379-380: f"{base_name}[{tracker_id}].torrent"
RetargetName(original, tracker_id) ==
    SplitExtRoot(original) \o <<"[">> \o tracker_id \o <<"]">> \o DotTorrent

\* Mutant: without a source the default source is written
Mut_RetargetMetainfo_default_source(metainfo, announce_url, source) ==
    LET m1 == DSet(metainfo, "announce", PyBytes(announce_url))
    IN  DSet(m1, "info", DSet(DGet(m1, "info"), "source",
                              PyBytes(Or(source, <<"M", "U", "A">>))))

\* Lines 371-376: the announce URL and, if given, the source are replaced
RetargetMetainfo(metainfo, announce_url, source) ==
    LET m1 == DSet(metainfo, "announce", PyBytes(announce_url))
    IN  IF Truthy(source)
        THEN DSet(m1, "info", DSet(DGet(m1, "info"), "source", PyBytes(source)))
        ELSE m1

\* The outcome of open(output_path, 'wb'); f.write(encoded_data) in the
\* directory of the original: the files of the directory afterwards.  A name
\* with a separator lies in a sub-directory, and there is none
RetargetWrite(files, output_name, data, written) ==
    IF "/" \in {output_name[i] : i \in 1..Len(output_name)} THEN files
    ELSE WriteFile(files, output_name, SubSeq(data, 1, written))

\* create_tracker_specific_torrent(original_torrent_path, tracker_id,
\* announce_url, source) run on the directory holding files; whole tells
\* whether f.write puts all the bytes into the output file or fails half way
RunRetarget(files, original, tracker_id, announce_url, source, whole) ==
    LET call == [RtIdle EXCEPT !.original = original, !.tracker_id = tracker_id,
                               !.announce_url = announce_url, !.source = source,
                               !.outdir0 = files]
        output_name == RetargetName(original, tracker_id)
    IN  IF ~bencodepy
        THEN [rec |-> [call EXCEPT !.pc = "raised", !.err = "ImportError"], files |-> files]
        ELSE IF FileAt(files, original) = NoneVal
        THEN [rec |-> [call EXCEPT !.pc = "raised", !.err = "FileNotFoundError",
                                   !.effects = {"open original"}],
              files |-> files]
        ELSE IF announce_url = NoneVal
        THEN [rec |-> [call EXCEPT !.pc = "raised", !.err = "AttributeError",
                                   !.effects = {"open original", "decode"}],
              files |-> files]
        ELSE LET metainfo == RetargetMetainfo(decode(FileAt(files, original)),
                                              announce_url, source)
                 data == Bencode(metainfo)
             IN  IF "/" \in {output_name[i] : i \in 1..Len(output_name)}
                 THEN [rec |-> [call EXCEPT !.pc = "raised", !.err = "FileNotFoundError",
                                            !.effects = {"open original", "decode", "encode"}],
                       files |-> files]
                 ELSE IF ~whole
                 THEN [rec |-> [call EXCEPT !.pc = "raised", !.err = "OSError",
                                            !.effects = {"open original", "decode", "encode",
                                                         "truncate output"}],
                       files |-> RetargetWrite(files, output_name, data, Len(data) \div 2)]
                 ELSE [rec |-> [call EXCEPT !.pc = "returned", !.result = output_name,
                                            !.effects = {"open original", "decode", "encode",
                                                         "truncate output", "write output"}],
                       files |-> RetargetWrite(files, output_name, data, Len(data))]

\* The tracker ids, announce URLs and sources of the re-targeting calls
TrackerIds == {<<"y">>, <<>>, <<"x", "/", "y">>}
RetargetAnnounces == {<<"N">>, <<"A">>, NoneVal}
RetargetSources == {NoneVal, <<>>, <<"Z">>}

\* A name no file of the output directory has
MissingTorrent == <<"n", "o">> \o DotTorrent

\* create_tracker_specific_torrent on a .torrent the builder has written, or
\* on a missing file; once more on its own result
Retarget(original, tracker_id, announce_url, source, whole) ==
    /\ ct.pc \in {"idle", "returned"}
    /\ \/ rt.pc = "idle" /\ original \in {ct.result, MissingTorrent} \ {NoneVal}
       \/ rt.pc = "returned" /\ ~rt.again /\ original = rt.result
    /\ LET out == RunRetarget(outdir.files, original, tracker_id, announce_url, source, whole)
       IN  /\ rt' = [out.rec EXCEPT !.again = (rt.pc = "returned")]
           /\ outdir' = [outdir EXCEPT !.files = out.files]
    /\ UNCHANGED <<inputVars, built, sized, named, par, now, ct, prev, orch, dirs, hs, net, run>>

(***************************************************************************)
(* Calls of create_torrent that run side by side, each on its own input    *)
(* path, with the same configuration and the same output directory.  One   *)
(* call runs at a time, for one step: kind, tree and path are the input of *)
(* the call that runs, and any call may run next.                          *)
(***************************************************************************)
\* The locals of create_torrent when open(output_path, 'wb') has returned
PreparedCall(cfg, args, walk, t) ==
    OpenStep(AssembleStep(InfoStep(SizeStep(Validate([Idle EXCEPT !.config = cfg,
                                                                  !.args = args]),
                                            walk), walk, t), t), t)

ParConfig == NoConfig
ParArgs == [NoArgs EXCEPT !.announce_url = <<"A">>]

\* The call i is the one that runs
Running(i) ==
    /\ i \in DOMAIN par
    /\ kind = par[i].input.kind
    /\ tree = par[i].input.tree
    /\ path = par[i].input.path

\* The call j runs next
RunNext(j) ==
    /\ j \in DOMAIN par
    /\ kind' = par[j].input.kind
    /\ tree' = par[j].input.tree
    /\ path' = par[j].input.path

\* Lines 43-113 of the call i: from the entry to the open of the output file
Par_Open(i, j) ==
    /\ Running(i)
    /\ par[i].pc = "called"
    /\ \E walk \in (IF isdir THEN WalkOrders ELSE {<<>>}) :
          LET c == PreparedCall(ParConfig, ParArgs, walk, now)
          IN  /\ par' = [par EXCEPT ![i] = [@ EXCEPT !.pc = "opened", !.data = c.data,
                                                     !.output_name = c.output_name]]
              /\ outdir' = [exists |-> TRUE,
                            files |-> WriteFile(outdir.files, c.output_name, <<>>)]
    /\ RunNext(j)
    /\ UNCHANGED <<bigfiles, bencodepy, built, sized, rt, named, now, ct, prev, orch, dirs, hs, net, run>>

\* Lines 114-117 of the call i: the write and the return
Par_Write(i, j) ==
    /\ Running(i)
    /\ par[i].pc = "opened"
    /\ par' = [par EXCEPT ![i] = [@ EXCEPT !.pc = "returned", !.result = par[i].output_name]]
    /\ outdir' = [outdir EXCEPT !.files = WriteFile(@, par[i].output_name, par[i].data)]
    /\ RunNext(j)
    /\ UNCHANGED <<bigfiles, bencodepy, built, sized, rt, named, now, ct, prev, orch, dirs, hs, net, run>>

(***************************************************************************)
(* Specifications.                                                         *)
(***************************************************************************)
vars == <<kind, tree, path, now, built, bigfiles, sized, bencodepy, outdir, ct, prev, orch, rt, named, par, dirs, hs, net, run>>

PathAlbum == [base |-> <<"a", "l">>, parent |-> <<"m">>]

\* Walk orders of the current tree, or the empty walk for a file
Walks == IF isdir THEN WalkOrders ELSE {<<>>}

\* The directories the builder is run on: an empty one, one file, and the
\* three files of TreePaths, one of them empty
BuilderTrees ==
    { <<>>,
      [p \in {<<SegB>>} |-> <<0, 1>>],
      [p \in TreePaths |-> IF p = <<SegB>> THEN <<>> ELSE IF p = <<SegAdotB>> THEN <<1>> ELSE <<0>>] }

Init ==
    /\ kind \in {"missing", "file", "dir"}
    /\ tree \in (CASE kind = "missing" -> {<<>>}
                   [] kind = "file" -> [{<<>>} -> {<<0, 1>>}]
                   [] kind = "dir" -> BuilderTrees)
    /\ path \in (CASE kind = "missing" -> {PathAlbum}
                   [] kind = "file" -> {PathAlbum, [base |-> <<"t", ".", "f">>, parent |-> <<"m">>]}
                   [] kind = "dir" -> PathChoices)
    /\ now = 0
    /\ bencodepy \in BOOLEAN
    /\ outdir = [exists |-> FALSE, files |-> {}]
    /\ built = NotBuilt
    /\ bigfiles = <<>>
    /\ sized = NotSized
    /\ ct = Idle
    /\ prev = NoPrev
    /\ orch = OrchIdle
    /\ rt = RtIdle
    /\ named = NotNamed
    /\ par = NoPar
    /\ dirs = {}
    /\ hs = NotHashing
    /\ net = NoCall
    /\ run = NoRun

Next ==
    \/ \E cfg \in Configs, args \in Args : CT_Call(cfg, args)
    \/ \E walk \in Walks : CT_Size(walk)
    \/ \E walk \in Walks : CT_Info(walk)
    \/ CT_Assemble
    \/ CT_InfoError
    \/ CT_Open
    \/ CT_Write
    \/ \E n \in PartialWrites(ct.data) : CT_WriteError(n)
    \/ CT_Again
    \/ \E cfg \in OrchConfigs, options \in Options : Orch_Skip(cfg, options)
    \/ \E cfg \in OrchConfigs, options \in Options : Orch_Prepare(cfg, options)
    \/ \E walk \in Walks : Orch_Call(walk)
    \/ Tick

Spec == Init /\ [][Next]_vars

\* create_torrent with every combination of a requested and a configured
\* source and private flag, on a file and on a directory
MetaConfigs ==
    {[NoConfig EXCEPT !.torrent_source = s, !.torrent_private = p] :
        s \in {NoneVal, <<"S">>}, p \in {"None", "True", "False"}}

MetaArgs ==
    {[NoArgs EXCEPT !.announce_url = <<"A">>, !.source = s, !.private = p] :
        s \in {NoneVal, <<>>, <<"R">>}, p \in {"None", "True", "False"}}

InitMeta ==
    /\ kind \in {"file", "dir"}
    /\ tree \in (IF kind = "file" THEN [{<<>>} -> {<<0, 1>>}]
                 ELSE {[p \in {<<SegA, SegB>>, <<SegB>>} |-> IF p = <<SegB>> THEN <<1>> ELSE <<0, 1>>]})
    /\ path = PathAlbum
    /\ now = 0
    /\ bencodepy = TRUE
    /\ outdir = [exists |-> FALSE, files |-> {}]
    /\ built = NotBuilt
    /\ bigfiles = <<>>
    /\ sized = NotSized
    /\ ct = Idle
    /\ prev = NoPrev
    /\ orch = OrchIdle
    /\ rt = RtIdle
    /\ named = NotNamed
    /\ par = NoPar
    /\ dirs = {}
    /\ hs = NotHashing
    /\ net = NoCall
    /\ run = NoRun

NextMeta ==
    \/ \E cfg \in MetaConfigs, args \in MetaArgs : CT_Call(cfg, args)
    \/ \E walk \in Walks : CT_Size(walk)
    \/ \E walk \in Walks : CT_Info(walk)
    \/ CT_Assemble
    \/ CT_Open
    \/ CT_Write

SpecMeta == InitMeta /\ [][NextMeta]_vars

\* A build followed by re-targeting of the .torrent it wrote
RetargetArgs ==
    {[NoArgs EXCEPT !.announce_url = <<"A">>, !.source = s] : s \in {NoneVal, <<"R">>}}

RetargetConfigs ==
    {[NoConfig EXCEPT !.torrent_private = p, !.torrent_source = s] :
        p \in {"None", "False"}, s \in {NoneVal, <<>>}}

InitRetarget ==
    /\ kind \in {"file", "dir"}
    /\ tree \in (IF kind = "file" THEN [{<<>>} -> {<<0, 1>>}]
                 ELSE {[p \in {<<SegA, SegB>>, <<SegB>>} |-> IF p = <<SegB>> THEN <<1>> ELSE <<0, 1>>]})
    /\ path \in (IF kind = "file" THEN {[base |-> <<"t", ".", "f">>, parent |-> <<"m">>]}
                 ELSE {PathAlbum})
    /\ now = 0
    /\ bencodepy \in BOOLEAN
    /\ outdir = [exists |-> FALSE, files |-> {}]
    /\ built = NotBuilt
    /\ bigfiles = <<>>
    /\ sized = NotSized
    /\ ct = Idle
    /\ prev = NoPrev
    /\ orch = OrchIdle
    /\ rt = RtIdle
    /\ named = NotNamed
    /\ par = NoPar
    /\ dirs = {}
    /\ hs = NotHashing
    /\ net = NoCall
    /\ run = NoRun

NextRetarget ==
    \/ \E cfg \in RetargetConfigs, args \in RetargetArgs : CT_Call(cfg, args)
    \/ \E walk \in Walks : CT_Size(walk)
    \/ \E walk \in Walks : CT_Info(walk)
    \/ CT_Assemble
    \/ CT_Open
    \/ CT_Write
    \/ \E original \in {f[1] : f \in outdir.files} \cup {MissingTorrent},
          tracker_id \in TrackerIds, announce_url \in RetargetAnnounces,
          source \in RetargetSources, whole \in BOOLEAN :
            Retarget(original, tracker_id, announce_url, source, whole)

SpecRetarget == InitRetarget /\ [][NextRetarget]_vars

\* Names of input paths: every string of a few characters, among them an
\* invalid one, the space and the dot
MaxNameLen == 4

BaseNameChars == {"a", ":", " ", "."}

\* The strings _sanitize_filename is called with: the separator too
FileNameChars == BaseNameChars \cup {"/"}

\* A directory's base name is empty when the path ends with a separator; a
\* file's base name is not empty and is neither "." nor ".."
NamePaths ==
    {[base |-> b, parent |-> <<"m">>] :
        b \in {s \in SeqsUpTo(BaseNameChars, MaxNameLen) :
                 kind = "file" => s \notin {<<>>, <<".">>, <<".", ".">>}}}

\* create_torrent on a file or a directory of every name
InitName ==
    /\ kind \in {"file", "dir"}
    /\ tree \in (IF kind = "file" THEN [{<<>>} -> {<<0, 1>>}]
                 ELSE {[p \in {<<SegB>>} |-> <<0, 1>>]})
    /\ path \in NamePaths
    /\ now = 0
    /\ bencodepy = TRUE
    /\ outdir = [exists |-> FALSE, files |-> {}]
    /\ built = NotBuilt
    /\ bigfiles = <<>>
    /\ sized = NotSized
    /\ ct = Idle
    /\ prev = NoPrev
    /\ orch = OrchIdle
    /\ rt = RtIdle
    /\ named = NotNamed
    /\ par = NoPar
    /\ dirs = {}
    /\ hs = NotHashing
    /\ net = NoCall
    /\ run = NoRun

NextName ==
    \/ CT_Call(NoConfig, [NoArgs EXCEPT !.announce_url = <<"A">>])
    \/ \E walk \in Walks : CT_Size(walk)
    \/ \E walk \in Walks : CT_Info(walk)
    \/ CT_Assemble
    \/ CT_Open
    \/ CT_Write

SpecName == InitName /\ [][NextName]_vars

\* _sanitize_filename called with a string
SanitizeFilename ==
    /\ ~named.called
    /\ named' = [named EXCEPT !.called = TRUE,
                              !.result = sanitize_filename(named.filename, now)]
    /\ UNCHANGED <<inputVars, built, sized, rt, par, now, outdir, ct, prev, orch, dirs, hs, net, run>>

\* _sanitize_filename on every string, at two times
InitSanitize ==
    /\ kind = "dir"
    /\ tree = <<>>
    /\ path = PathAlbum
    /\ now \in {0, 1}
    /\ bencodepy = TRUE
    /\ outdir = [exists |-> FALSE, files |-> {}]
    /\ built = NotBuilt
    /\ bigfiles = <<>>
    /\ sized = NotSized
    /\ ct = Idle
    /\ prev = NoPrev
    /\ orch = OrchIdle
    /\ rt = RtIdle
    /\ named \in {[NotNamed EXCEPT !.filename = f] : f \in SeqsUpTo(FileNameChars, MaxNameLen)}
    /\ par = NoPar
    /\ dirs = {}
    /\ hs = NotHashing
    /\ net = NoCall
    /\ run = NoRun

NextSanitize == SanitizeFilename

SpecSanitize == InitSanitize /\ [][NextSanitize]_vars

\* Two albums: of the same base name in two parent directories, of base
\* names that are sanitized to the same name, and of unrelated names
ParPaths ==
    { [base |-> <<"a", "l">>, parent |-> <<"m">>],
      [base |-> <<"a", "l">>, parent |-> <<"n">>],
      [base |-> <<"a", ":", "l">>, parent |-> <<"m">>],
      [base |-> <<"a", "_", "l">>, parent |-> <<"m">>],
      [base |-> <<"b", "l">>, parent |-> <<"m">>] }

ParInputs ==
    {[kind |-> "dir", tree |-> [p \in {<<SegB>>} |-> c], path |-> q] :
        c \in {<<0>>, <<1>>}, q \in ParPaths}

ParCalled(input) ==
    [pc |-> "called", input |-> input, data |-> <<>>, output_name |-> NoneVal,
     result |-> NoneVal]

InitPar ==
    /\ par \in {<<ParCalled(ab[1]), ParCalled(ab[2])>> :
                  ab \in {x \in ParInputs \X ParInputs : x[1].path # x[2].path}}
    /\ \E i \in DOMAIN par :
          /\ kind = par[i].input.kind
          /\ tree = par[i].input.tree
          /\ path = par[i].input.path
    /\ now = 0
    /\ bencodepy = TRUE
    /\ outdir = [exists |-> FALSE, files |-> {}]
    /\ built = NotBuilt
    /\ bigfiles = <<>>
    /\ sized = NotSized
    /\ ct = Idle
    /\ prev = NoPrev
    /\ orch = OrchIdle
    /\ rt = RtIdle
    /\ named = NotNamed
    /\ dirs = {}
    /\ hs = NotHashing
    /\ net = NoCall
    /\ run = NoRun

NextPar == \E i, j \in 1..2 : Par_Open(i, j) \/ Par_Write(i, j)

SpecPar == InitPar /\ [][NextPar]_vars

\* create_torrent with a piece size given in KiB: negative, zero, positive
ExplicitPieceSizes == {[tag |-> "int", v |-> n] : n \in {-1, 0, 1, 2}}

PieceArgs ==
    {[NoArgs EXCEPT !.announce_url = <<"A">>, !.piece_size = ps] :
        ps \in ExplicitPieceSizes \cup {[tag |-> "auto", v |-> 0]}}

InitPiece ==
    /\ kind \in {"file", "dir"}
    /\ tree \in (IF kind = "file" THEN [{<<>>} -> {<<>>, <<0, 1>>}]
                 ELSE {<<>>,
                       [p \in {<<SegA, SegB>>, <<SegB>>} |-> IF p = <<SegB>> THEN <<1>> ELSE <<0, 1>>]})
    /\ path \in {PathAlbum, [base |-> <<"t", ".", "f">>, parent |-> <<"m">>]}
    /\ now = 0
    /\ bencodepy = TRUE
    /\ outdir = [exists |-> FALSE, files |-> {}]
    /\ built = NotBuilt
    /\ bigfiles = <<>>
    /\ sized = NotSized
    /\ ct = Idle
    /\ prev = NoPrev
    /\ orch = OrchIdle
    /\ rt = RtIdle
    /\ named = NotNamed
    /\ par = NoPar
    /\ dirs = {}
    /\ hs = NotHashing
    /\ net = NoCall
    /\ run = NoRun

NextPiece ==
    \/ \E args \in PieceArgs : CT_Call(NoConfig, args)
    \/ \E walk \in Walks : CT_Size(walk)
    \/ \E walk \in Walks : CT_Info(walk)
    \/ CT_Assemble
    \/ CT_Open
    \/ CT_Write

SpecPiece == InitPiece /\ [][NextPiece]_vars

\* _build_info_dict on a directory before and after a file or a
\* sub-directory holding nothing is created in it
ZeroContents == {<<>>, <<0>>, <<0, 1, 1>>}

InitZero ==
    /\ kind = "dir"
    /\ tree \in Trees(TreePaths, ZeroContents)
    /\ dirs \in {D \in SUBSET {SegC} : TRUE}
    /\ path = PathAlbum
    /\ now = 0
    /\ bencodepy = TRUE
    /\ outdir = [exists |-> TRUE, files |-> {}]
    /\ built = NotBuilt
    /\ bigfiles = <<>>
    /\ sized = NotSized
    /\ ct = Idle
    /\ prev = NoPrev
    /\ orch = OrchIdle
    /\ rt = RtIdle
    /\ named = NotNamed
    /\ par = NoPar
    /\ hs = NotHashing
    /\ net = NoCall
    /\ run = NoRun

NextZero ==
    \/ \E piece_size \in 1..MaxPieceLen, walk \in Walks : BuildInfoDict(piece_size, walk)
    \/ \E p \in TreePaths : AddEmptyFile(p)
    \/ \E d \in EmptyDirNames : AddEmptyDir(d)

SpecZero == InitZero /\ [][NextZero]_vars

\* The hashing loops on every small file and directory, every piece length
InitHasher ==
    /\ kind \in {"file", "dir"}
    /\ tree \in (IF kind = "file" THEN [{<<>>} -> ZeroContents]
                 ELSE Trees(TreePaths, ZeroContents))
    /\ dirs = {}
    /\ path = PathAlbum
    /\ now = 0
    /\ bencodepy = TRUE
    /\ outdir = [exists |-> TRUE, files |-> {}]
    /\ built = NotBuilt
    /\ bigfiles = <<>>
    /\ sized = NotSized
    /\ ct = Idle
    /\ prev = NoPrev
    /\ orch = OrchIdle
    /\ rt = RtIdle
    /\ named = NotNamed
    /\ par = NoPar
    /\ hs = NotHashing
    /\ net = NoCall
    /\ run = NoRun

NextHasher ==
    \/ \E piece_size \in 1..MaxPieceLen, walk \in Walks : H_Enter(piece_size, walk)
    \/ H_Open
    \/ H_OpenError
    \/ H_Read
    \/ H_ReadError
    \/ H_Return

SpecHasher == InitHasher /\ [][NextHasher]_vars

\* One call of a tracker or client method in every environment
InitNet ==
    /\ kind = "file"
    /\ tree = [p \in {<<>>} |-> <<0, 1>>]
    /\ dirs = {}
    /\ path = PathAlbum
    /\ now = 0
    /\ bencodepy = TRUE
    /\ outdir = [exists |-> TRUE, files |-> {}]
    /\ built = NotBuilt
    /\ bigfiles = <<>>
    /\ sized = NotSized
    /\ ct = Idle
    /\ prev = NoPrev
    /\ orch = OrchIdle
    /\ rt = RtIdle
    /\ named = NotNamed
    /\ par = NoPar
    /\ hs = NotHashing
    /\ net = NoCall
    /\ run = NoRun

NextNet == \E method \in Methods, e \in Environments : Net_Call(method, e)

SpecNet == InitNet /\ [][NextNet]_vars

\* process_file on a file and process_album on a directory, with every
\* combination of options
RunOptions ==
    {[create_torrent |-> c, upload |-> u, tracker |-> tr, announce_url |-> NoneVal] :
        c \in BOOLEAN, u \in BOOLEAN, tr \in {NoneVal, <<"y">>}}

RunConfigs ==
    {NoConfig, [NoConfig EXCEPT !.tracker_configured = TRUE,
                                !.tracker_announce_url = <<"Y">>]}

RunEnvs == [manager : {"module", "none", "raises"}, answer : {"ok", "refused"}]

InitRun ==
    /\ kind \in {"file", "dir"}
    /\ tree = IF kind = "file" THEN [p \in {<<>>} |-> <<0, 1>>]
              ELSE [p \in {<<SegA, SegB>>, <<SegB>>} |-> <<0, 1>>]
    /\ dirs = {}
    /\ path = PathAlbum
    /\ now = 0
    /\ bencodepy = TRUE
    /\ outdir = [exists |-> TRUE, files |-> {}]
    /\ built = NotBuilt
    /\ bigfiles = <<>>
    /\ sized = NotSized
    /\ ct = Idle
    /\ prev = NoPrev
    /\ orch = OrchIdle
    /\ rt = RtIdle
    /\ named = NotNamed
    /\ par = NoPar
    /\ hs = NotHashing
    /\ net = NoCall
    /\ run = NoRun

NextRun ==
    \/ \E options \in RunOptions, cfg \in RunConfigs, env \in RunEnvs :
          \/ Run_File(options, cfg, env)
          \/ \E n \in 1..MaxTracks : Run_Album(options, cfg, env, n)
    \/ \E ok \in BOOLEAN : Run_Track(ok)
    \/ Run_NoTracks
    \/ \E walk \in Walks : Run_AlbumTorrent(walk)
    \/ Run_AlbumUpload

SpecRun == InitRun /\ [][NextRun]_vars

\* sanitize_filename on short strings and on strings about as long as the
\* limit: a run of letters and a tail of every kind of character
MaxTailLen == 3

UtilsNameChars == {"a", " ", "\t", ".", "/"}

Letters(n) == [i \in 1..n |-> "a"]

UtilsNames ==
    {Letters(n) \o tail :
        n \in {0} \cup ((NameLimit - MaxTailLen)..NameLimit),
        tail \in SeqsUpTo(UtilsNameChars, MaxTailLen)}

InitUtilsName ==
    /\ kind = "dir"
    /\ tree = <<>>
    /\ dirs = {}
    /\ path = PathAlbum
    /\ now = 0
    /\ bencodepy = TRUE
    /\ outdir = [exists |-> FALSE, files |-> {}]
    /\ built = NotBuilt
    /\ bigfiles = <<>>
    /\ sized = NotSized
    /\ ct = Idle
    /\ prev = NoPrev
    /\ orch = OrchIdle
    /\ rt = RtIdle
    /\ named \in {[NotNamed EXCEPT !.filename = s] : s \in UtilsNames}
    /\ par = NoPar
    /\ hs = NotHashing
    /\ net = NoCall
    /\ run = NoRun

NextUtilsName == UtilsSanitizeFilename

SpecUtilsName == InitUtilsName /\ [][NextUtilsName]_vars

\* _build_info_dict on every small file and directory, every piece length
InitHash ==
    /\ kind \in {"file", "dir"}
    /\ tree \in (IF kind = "file" THEN [{<<>>} -> Contents] ELSE Trees(TreePaths, Contents))
    /\ path = PathAlbum
    /\ now = 0
    /\ bencodepy = TRUE
    /\ outdir = [exists |-> TRUE, files |-> {}]
    /\ built = NotBuilt
    /\ bigfiles = <<>>
    /\ sized = NotSized
    /\ ct = Idle
    /\ prev = NoPrev
    /\ orch = OrchIdle
    /\ rt = RtIdle
    /\ named = NotNamed
    /\ par = NoPar
    /\ dirs = {}
    /\ hs = NotHashing
    /\ net = NoCall
    /\ run = NoRun

NextHash == \E piece_size \in 1..MaxPieceLen, walk \in Walks : BuildInfoDict(piece_size, walk)

SpecHash == InitHash /\ [][NextHash]_vars

\* _calculate_piece_size on a file or a directory of large files
InitSize ==
    /\ kind \in {"file", "dir"}
    /\ tree = <<>>
    /\ path = PathAlbum
    /\ now = 0
    /\ bencodepy = TRUE
    /\ outdir = [exists |-> TRUE, files |-> {}]
    /\ built = NotBuilt
    /\ bigfiles \in (IF kind = "file" THEN [1..1 -> BigSizes]
                     ELSE UNION {[1..n -> BigSizes] : n \in 0..MaxBigFiles})
    /\ sized = NotSized
    /\ ct = Idle
    /\ prev = NoPrev
    /\ orch = OrchIdle
    /\ rt = RtIdle
    /\ named = NotNamed
    /\ par = NoPar
    /\ dirs = {}
    /\ hs = NotHashing
    /\ net = NoCall
    /\ run = NoRun

NextSize == \E arg \in PieceSizeArgs : ChoosePieceSize(arg)

SpecSize == InitSize /\ [][NextSize]_vars

(***************************************************************************)
(* Properties.                                                             *)
(***************************************************************************)
CeilDiv(a, b) == (a + b - 1) \div b

RECURSIVE SumLen(_)
SumLen(S) ==
    IF S = {} THEN 0
    ELSE LET p == CHOOSE q \in S : TRUE IN Len(tree[p]) + SumLen(S \ {p})

\* The sum of the sizes of all files under the input path
TotalBytes == SumLen(Files)

\* The digests of the info dictionary that was built
BuiltPieces == DGet(built.info, "pieces").v

\* The paths of the files list of the info dictionary that was built
BuiltPaths ==
    LET files == DGet(built.info, "files").v
    IN  [i \in 1..Len(files) |-> EntryPath(files[i])]

\* The bytes of the files of a list of paths, one after the other
RECURSIVE ConcatContents(_)
ConcatContents(paths) ==
    IF paths = <<>> THEN <<>> ELSE tree[Head(paths)] \o ConcatContents(Tail(paths))

\* C1: for every file or directory and every piece length, the pieces value
\* is exactly 20 * ceil(total_bytes / piece_length) bytes long, with no extra
\* digest when total_bytes is a multiple of the piece length.
C1_PieceCount ==
    built.called =>
        ByteLen(BuiltPieces) = DigestSize * CeilDiv(TotalBytes, built.piece_size)

\* C1 happens: several files whose sizes add up to a multiple of the piece
\* length, more than one piece long
C1_Witness ==
    /\ built.called
    /\ isdir
    /\ Cardinality(Files) >= 2
    /\ TotalBytes % built.piece_size = 0
    /\ TotalBytes > built.piece_size
    /\ Len(BuiltPieces) = TotalBytes \div built.piece_size

\* C2: for two or more files the digests of the multi-file hasher are, digest
\* by digest, those of the single-file hasher run on one file holding the
\* same bytes in the same order.
C2_SameAsConcatenation ==
    (built.called /\ isdir /\ Cardinality(Files) >= 2) =>
        BuiltPieces = calculate_pieces(ConcatContents(BuiltPaths), built.piece_size)

\* C2 happens: a piece starts in the tail of the first file and is completed
\* with the head of the next, the piece length being smaller than a file
C2_Witness ==
    /\ built.called
    /\ isdir
    /\ Cardinality(Files) >= 2
    /\ Len(tree[BuiltPaths[1]]) % built.piece_size # 0
    /\ Len(tree[BuiltPaths[2]]) > 0
    /\ \E p \in Files : built.piece_size < Len(tree[p])
    /\ BuiltPieces = calculate_pieces(ConcatContents(BuiltPaths), built.piece_size)

\* The tier table of the policy: total size below the first number (MiB)
\* gives pieces of the second number (KiB); 8 GiB and more gives 4 MiB
TierTable ==
    << <<50, 16>>, <<150, 32>>, <<350, 64>>, <<512, 128>>, <<1024, 256>>,
       <<2048, 512>>, <<4096, 1024>>, <<8192, 2048>> >>

\* The piece length, in KiB, that the tier table gives a total size
TierKiB(total) ==
    LET below == {i \in 1..Len(TierTable) : total.mib < TierTable[i][1]}
    IN  IF below = {} THEN 4096
        ELSE TierTable[CHOOSE i \in below : \A j \in below : i <= j][2]

\* C4: in auto mode (piece_size 'auto' or omitted) the piece length is the
\* tier table's for the sum of the sizes of all files under the path; a size
\* equal to a tier edge falls in the higher tier.
C4_TierTable ==
    (sized.called /\ sized.arg.tag \in {"auto", "None"}) =>
        /\ sized.piece_size = TierKiB(BigSum(bigfiles)) * 1024
        /\ BigSum(bigfiles) = Big(49, 0) => sized.piece_size = 16 * 1024
        /\ BigSum(bigfiles) = Big(50, 0) => sized.piece_size = 32 * 1024

\* C4 happens: two files of 25 MiB add up to the 50 MiB edge, piece size omitted
C4_Witness ==
    /\ sized.called
    /\ sized.arg.tag = "None"
    /\ kind = "dir"
    /\ Len(bigfiles) = 2
    /\ bigfiles[1] = Big(25, 0)
    /\ BigSum(bigfiles) = Big(50, 0)
    /\ sized.piece_size = 32 * 1024

\* The files of the tree in ascending order of their lists of path segments
SegmentOrder ==
    CHOOSE s \in Perms(Files) : \A i, j \in 1..Len(s) : i < j => ListLess(s[i], s[j])

\* C5 as claimed: the files list (and with it the hash stream) is in byte-wise
\* lexicographic order of the full relative paths.
C5_FullPathOrder ==
    (built.called /\ isdir) =>
        \A i, j \in 1..Len(BuiltPaths) :
            i < j => StrLess(JoinPath(BuiltPaths[i]), JoinPath(BuiltPaths[j]))

\* C5 amended: the files list holds every file once, in ascending order of
\* the lists of path segments (segment by segment, each compared by code
\* point), and the bytes are hashed in that order.
C5_SegmentOrder ==
    (built.called /\ isdir) =>
        /\ BuiltPaths = SegmentOrder
        /\ BuiltPieces = calculate_pieces(ConcatContents(SegmentOrder), built.piece_size)

\* C5 happens: a/b is listed before a.b although "a.b" < "a/b" as strings
C5_Witness ==
    /\ built.called
    /\ isdir
    /\ Files = TreePaths
    /\ BuiltPaths = <<<<SegA, SegB>>, <<SegAdotB>>, <<SegB>>>>
    /\ StrLess(JoinPath(<<SegAdotB>>), JoinPath(<<SegA, SegB>>))
    /\ built.walk # BuiltPaths

\* C6: the info dictionary of a directory is the same for every order in
\* which the walk enumerates its files.
C6_WalkOrderIrrelevant ==
    (built.called /\ isdir) =>
        \A walk \in WalkOrders :
            build_multi_file_info(built.piece_size, walk, now) = built.info

\* C6 happens: the directory can be walked in several orders, and the one
\* that was taken is not the sorted one
C6_Witness ==
    /\ built.called
    /\ isdir
    /\ Cardinality(WalkOrders) >= 2
    /\ built.walk # BuiltPaths
    /\ \E walk \in WalkOrders : walk # built.walk

\* C3 as claimed: when the orchestration is asked to create a torrent for
\* an existing path with a resolvable announce URL, its call of
\* create_torrent returns the path of a .torrent file that exists on disk,
\* and metadata['torrent_path'] records it.
C3_OrchestrationGetsTorrent ==
    (/\ orch.pc = "done"
     /\ orch.options.create_torrent
     /\ exists
     /\ bencodepy
     /\ Truthy(ResolveAnnounce(orch.config, orch.announce_url))) =>
        /\ orch.torrent_path # NoneVal
        /\ \E f \in outdir.files : f[1] = orch.torrent_path

\* C7 as claimed: two builds of the same unchanged path with the same
\* arguments and configuration write byte-identical files, whenever they run.
C7_ByteIdentical ==
    (ct.pc = "returned" /\ prev.n >= 1) =>
        (ct.data = prev.data /\ ct.result = prev.result)

\* C7 amended: the two builds write byte-identical files to the same path
\* when every clock reading of both builds is the same second.
C7_SameSecondIdentical ==
    (/\ ct.pc = "returned"
     /\ prev.n >= 1
     /\ Cardinality(ct.clock \cup prev.clock) = 1) =>
        (ct.data = prev.data /\ ct.result = prev.result)

\* C7 happens: a directory of several files was built twice within a second
C7_Witness ==
    /\ ct.pc = "returned"
    /\ prev.n >= 1
    /\ Cardinality(ct.clock \cup prev.clock) = 1
    /\ isdir
    /\ Cardinality(Files) >= 2
    /\ ct.data = prev.data

\* C8 as claimed: building from a directory without regular files fails with
\* an input error and creates or modifies no file in the output directory.
C8_EmptyDirectoryFails ==
    (isdir /\ Files = {} /\ ct.pc # "idle") =>
        /\ ct.pc # "returned"
        /\ outdir.files = {}

\* C9: if the path does not exist or no announce URL can be resolved, the
\* call raises before any content file is sized, opened or hashed and before
\* the output directory or file is created.
C9_FailFast ==
    (/\ ct.pc # "idle"
     /\ \/ ~exists
        \/ ~Truthy(ResolveAnnounce(ct.config, ct.args.announce_url))) =>
        /\ ct.pc = "raised"
        /\ ct.err \in {"ImportError", "FileNotFoundError", "ValueError"}
        /\ ct.effects = {}
        /\ outdir = [exists |-> FALSE, files |-> {}]

\* C9 happens: the path holds files that could have been sized and hashed,
\* no announce URL resolves, and the call has raised
C9_Witness ==
    /\ ct.pc = "raised"
    /\ ct.err = "ValueError"
    /\ exists
    /\ Files # {}
    /\ ct.args.piece_size.tag = "auto"
    /\ ct.effects = {}
    /\ ~outdir.exists

\* The first non-empty of three optional strings, None when there is none
FirstNonEmpty(a, b, c) ==
    IF Truthy(a) THEN a ELSE IF Truthy(b) THEN b ELSE IF Truthy(c) THEN c ELSE NoneVal

\* C10 as claimed: the announce URL that is embedded is the first non-empty
\* of the caller's, the configured tracker's and the global one; a non-empty
\* announce URL given by the caller, also through the orchestration's
\* announce_url option, is never replaced; with all of them empty the build
\* fails.
C10_ExplicitAnnounceFirst ==
    /\ ct.pc \in {"validated", "sized", "built", "assembled", "returned"} =>
          ct.announce_url = FirstNonEmpty(ct.args.announce_url,
                                          ct.config.torrent_announce_url,
                                          ct.config.announce_url)
    /\ ct.pc \in {"assembled", "returned"} =>
          DGet(ct.metainfo, "announce").v = ct.announce_url
    /\ (/\ ct.pc # "idle"
        /\ bencodepy
        /\ exists
        /\ FirstNonEmpty(ct.args.announce_url, ct.config.torrent_announce_url,
                         ct.config.announce_url) = NoneVal) =>
          (ct.pc = "raised" /\ ct.err = "ValueError")
    /\ (/\ orch.pc \in {"prepared", "done"}
        /\ orch.options.create_torrent
        /\ Truthy(orch.options.announce_url)) =>
          orch.announce_url = orch.options.announce_url

(***************************************************************************)
(* Failures while reading the input and while writing the output.          *)
(***************************************************************************)
\* C11: when the open or a read of a content file fails during hashing, the
\* call ends with an error and the output directory holds exactly the files,
\* byte for byte, that it held when the call began, and is not even created.
C11_ReadFailureLeavesOutput ==
    (ct.raised_at = "hash") =>
        /\ ct.pc = "raised"
        /\ ct.err = "OSError"
        /\ outdir.files = ct.outdir0
        /\ ct.effects \cap {"makedirs", "truncate", "write"} = {}

\* C11 happens: an earlier build left a .torrent in the output directory and
\* the next build of the same path fails reading a content file
C11_Witness ==
    /\ ct.pc = "raised"
    /\ ct.raised_at = "hash"
    /\ prev.n >= 1
    /\ FileAt(outdir.files, prev.result) = prev.data
    /\ prev.data # <<>>

\* C12 as claimed: in every state of a build, and after a failed write, the
\* file at the output path is absent, or holds the complete content it had
\* before the call, or holds the complete new metainfo.
C12_NeverPartial ==
    (ct.output_name # NoneVal) =>
        FileAt(outdir.files, ct.output_name)
            \in {NoneVal, FileAt(ct.outdir0, ct.output_name), ct.data}

(***************************************************************************)
(* The keys of the info dictionary.                                        *)
(***************************************************************************)
\* The keys of a dict
KeySet(d) == {d.v[i][1] : i \in DOMAIN d.v}

\* The info dictionary of the metainfo that is written
WrittenInfo == DGet(ct.metainfo, "info")

\* C13 as claimed: the written info dictionary holds name, piece length,
\* pieces and one of length and files; it holds source only when the caller
\* passed a non-empty source or the configuration sets one, and private only
\* when private is true; with no source passed, private=False passed and
\* neither configured it holds neither source nor private.
C13_OnlyRequestedKeys ==
    (ct.pc \in {"assembled", "opened", "returned"}) =>
        /\ KeySet(WrittenInfo) \ {"source", "private"}
              \in {{"name", "piece length", "pieces", "length"},
                   {"name", "piece length", "pieces", "files"}}
        /\ ("source" \in KeySet(WrittenInfo)) =>
              (Truthy(ct.args.source) \/ Truthy(ct.config.torrent_source))
        /\ ("private" \in KeySet(WrittenInfo)) => (ct.private = "True")
        /\ (/\ ct.args.source = NoneVal
            /\ ct.args.private = "False"
            /\ ct.config.torrent_source = NoneVal
            /\ ct.config.torrent_private = "None") =>
              KeySet(WrittenInfo) \cap {"source", "private"} = {}

(***************************************************************************)
(* length and files.                                                       *)
(***************************************************************************)
\* The bytes that were passed to sha1.update for a digest
PieceData(digest) ==
    CHOOSE d \in SeqsUpTo(Byte, MaxPieceLen) : Sha1Digest(d) = digest

\* The number of bytes that were hashed into a sequence of digests
RECURSIVE HashedBytes(_)
HashedBytes(pieces) ==
    IF pieces = <<>> THEN 0
    ELSE Len(PieceData(Head(pieces))) + HashedBytes(Tail(pieces))

\* The sum of the length values of a files list
RECURSIVE SumLengths(_)
SumLengths(files) ==
    IF files = <<>> THEN 0
    ELSE DGet(Head(files), "length").v + SumLengths(Tail(files))

\* C14: an info dictionary holds exactly one of length and files.  For a
\* file it holds length, the file's size; for a directory it holds files,
\* with one entry per regular file whose length is that file's size, and the
\* lengths add up to the number of bytes that were hashed.
C14_LengthXorFiles ==
    built.called =>
        LET keys == KeySet(built.info)
        IN  /\ ("length" \in keys) # ("files" \in keys)
            /\ ~isdir =>
                  /\ "length" \in keys
                  /\ DGet(built.info, "length").v = Len(tree[<<>>])
                  /\ HashedBytes(BuiltPieces) = DGet(built.info, "length").v
            /\ isdir =>
                  LET files == DGet(built.info, "files").v
                  IN  /\ "files" \in keys
                      /\ Len(files) = Cardinality(Files)
                      /\ {BuiltPaths[i] : i \in 1..Len(files)} = Files
                      /\ \A i \in 1..Len(files) :
                            DGet(files[i], "length").v = Len(tree[BuiltPaths[i]])
                      /\ SumLengths(files) = HashedBytes(BuiltPieces)

\* C14 happens: a directory of three files of different sizes, one of them
\* empty, was built with pieces that cross the file boundaries
C14_Witness ==
    /\ built.called
    /\ isdir
    /\ Cardinality(Files) = 3
    /\ Cardinality({Len(tree[p]) : p \in Files}) = 3
    /\ \E p \in Files : tree[p] = <<>>
    /\ built.piece_size = 2
    /\ SumLengths(DGet(built.info, "files").v) = 3

(***************************************************************************)
(* Re-targeting.                                                           *)
(***************************************************************************)
\* The metainfo of the original torrent and of the re-targeted one, as the
\* files of the directory hold them
OriginalMetainfo == decode(FileAt(outdir.files, rt.original))
RetargetedMetainfo == decode(FileAt(outdir.files, rt.result))

\* C15: a re-targeted torrent has the announce URL that was passed and, when
\* a non-empty source was passed, that source in its info dictionary; every
\* other top-level key and every other key of the info dictionary is there
\* with the value of the original, and no new key is; without a source the
\* info dictionary is the original's; no content file is sized, opened or
\* hashed.
C15_RetargetFrame ==
    (rt.pc = "returned") =>
        LET old == OriginalMetainfo
            new == RetargetedMetainfo
            oldinfo == DGet(old, "info")
            newinfo == DGet(new, "info")
        IN  /\ DGet(new, "announce").v = rt.announce_url
            /\ KeySet(new) = KeySet(old)
            /\ \A k \in KeySet(old) \ {"announce", "info"} : DGet(new, k) = DGet(old, k)
            /\ KeySet(newinfo) \ {"source"} = KeySet(oldinfo) \ {"source"}
            /\ \A k \in KeySet(oldinfo) \ {"source"} : DGet(newinfo, k) = DGet(oldinfo, k)
            /\ Truthy(rt.source) => DGet(newinfo, "source").v = rt.source
            /\ ~Truthy(rt.source) => newinfo = oldinfo
            /\ DGet(newinfo, "pieces").v = DGet(ct.info, "pieces").v
            /\ rt.effects \cap {"getsize", "open", "hash"} = {}

\* C15 happens: a private multi-file torrent with a source was re-targeted
\* once with a new source and once without one
C15_Witness ==
    /\ rt.pc = "returned"
    /\ rt.again
    /\ ~Truthy(rt.source)
    /\ isdir
    /\ KeySet(DGet(OriginalMetainfo, "info")) =
          {"name", "files", "piece length", "pieces", "source", "private"}
    /\ DGet(DGet(RetargetedMetainfo, "info"), "source").v = <<"Z">>
    /\ ct.pc = "returned"
    /\ "source" \in KeySet(DGet(ct.metainfo, "info"))
    /\ DGet(DGet(ct.metainfo, "info"), "source").v = <<"R">>
    /\ DGet(RetargetedMetainfo, "announce").v # DGet(ct.metainfo, "announce").v

DirBaseName == IF path.base = <<>> THEN path.parent ELSE path.base

\* C17 as claimed: the name of the info dictionary of a directory is the
\* sanitized base name of the directory, sanitized as the output file name
\* is, a time-derived name when that is empty; the name of a single file's
\* info dictionary is the file's own name.
C17_NameIsSanitizedBase ==
    (ct.pc \in {"built", "assembled", "opened", "returned"}) =>
        LET name == DGet(ct.info, "name").v
        IN  IF isdir
            THEN /\ name = sanitize_filename(DirBaseName, now)
                 /\ ct.pc = "returned" => ct.result = name \o DotTorrent
            ELSE name = path.base

\* C18 as claimed: the sanitized name holds none of the characters
\* \ / : * ? " < > |, holds no two spaces in a row, and is not empty.
C18_SanitizedName ==
    named.called =>
        /\ \A i \in 1..Len(named.result) :
              named.result[i] \notin {"/", ":", "*", "?", "<", ">", "|"}
        /\ \A i \in 1..(Len(named.result) - 1) :
              ~(named.result[i] = " " /\ named.result[i + 1] = " ")
        /\ named.result # <<>>

\* The name of a file without its extension: up to its last dot, unless
\* nothing but dots comes before that dot
FileRootName(name) ==
    LET dots == {i \in 1..Len(name) : name[i] = "."}
    IN  IF \E i \in dots : (\A j \in dots : j <= i) /\ (\E j \in 1..(i - 1) : name[j] # ".")
        THEN SubSeq(name, 1, (CHOOSE i \in dots : \A j \in dots : j <= i) - 1)
        ELSE name

\* C19: a successful create_torrent returns <sanitized root name>.torrent in
\* the output directory, the root name being the base name of the input
\* directory or the base name of the input file (its name without the
\* extension), and when it returns the file at that path holds the complete
\* bencoded metainfo.
C19_OutputPath ==
    (ct.pc = "returned") =>
        /\ ct.result =
              sanitize_filename(IF isdir THEN DirBaseName ELSE FileRootName(path.base), now)
                 \o <<".", "t", "o", "r", "r", "e", "n", "t">>
        /\ outdir.exists
        /\ FileAt(outdir.files, ct.result) = Bencode(ct.metainfo)
        /\ Head(Bencode(ct.metainfo)) = "d"

\* C19 happens: the file "a:.a" was built into a_.torrent
C19_Witness ==
    /\ ct.pc = "returned"
    /\ kind = "file"
    /\ path.base = <<"a", ":", ".", "a">>
    /\ ct.result = <<"a", "_", ".", "t", "o", "r", "r", "e", "n", "t">>
    /\ FileAt(outdir.files, ct.result) = ct.data

(***************************************************************************)
(* Builds side by side.                                                    *)
(***************************************************************************)
\* C20 as claimed: two calls on two distinct input paths with the same
\* configuration never write to the same output file, and when both have
\* returned the path each returned holds the metainfo of its own input.
C20_DisjointOutputs ==
    /\ (\A i \in DOMAIN par : par[i].output_name # NoneVal) =>
          \A i, j \in DOMAIN par : i # j => par[i].output_name # par[j].output_name
    /\ (\A i \in DOMAIN par : par[i].pc = "returned") =>
          \A i \in DOMAIN par : FileAt(outdir.files, par[i].result) = par[i].data

(***************************************************************************)
(* An explicit piece size.                                                 *)
(***************************************************************************)
\* C21 as claimed: a piece size of n KiB passed by the caller gives a piece
\* length of exactly n * 1024 bytes whatever the content; n is accepted only
\* if it is a positive integer, and the piece length of every torrent that
\* is written is a positive multiple of 1024.
C21_ExplicitPieceSize ==
    /\ (ct.args.piece_size.tag = "int") =>
          /\ ct.pc \in {"sized", "built", "assembled", "opened", "returned"} =>
                ct.piece_size = ct.args.piece_size.v * 1024
          /\ ct.args.piece_size.v <= 0 =>
                ct.pc \in {"idle", "validated", "raised"}
    /\ (ct.pc \in {"assembled", "opened", "returned"}) =>
          LET piece_length == DGet(DGet(ct.metainfo, "info"), "piece length").v
          IN  piece_length > 0 /\ piece_length % 1024 = 0

(***************************************************************************)
(* The encoding: round trip and key order.                                 *)
(***************************************************************************)
\* A value as Python compares it with ==, a str taken as its bytes: a dict
\* is the set of its items, a list keeps its order
RECURSIVE Comparable(_)
Comparable(x) ==
    CASE x.t = "int" -> x
      [] x.t \in {"str", "bytes"} -> [t |-> "bytes", v |-> x.v]
      [] x.t = "list" -> [t |-> "list", v |-> [i \in 1..Len(x.v) |-> Comparable(x.v[i])]]
      [] x.t = "dict" ->
           [t |-> "dict", v |-> {<<x.v[i][1], Comparable(x.v[i][2])>> : i \in 1..Len(x.v)}]

\* C22: the bytes create_torrent has written decode to the metainfo that
\* was encoded, with the same keys, values and list order; re-targeting a
\* torrent with its own announce URL and no source writes the same metainfo
\* again.
C22_RoundTrip ==
    /\ (ct.pc = "returned") =>
          /\ Comparable(decode(FileAt(outdir.files, ct.result))) = Comparable(ct.metainfo)
          /\ Len(decode(FileAt(outdir.files, ct.result)).v) = Len(ct.metainfo.v)
    /\ (/\ rt.pc = "returned"
        /\ ~Truthy(rt.source)
        /\ rt.announce_url = DGet(OriginalMetainfo, "announce").v) =>
          /\ RetargetedMetainfo = OriginalMetainfo
          /\ FileAt(outdir.files, rt.result) = FileAt(outdir.files, rt.original)

\* C22 happens: a multi-file torrent without source and private was written
\* and then re-targeted with its own announce URL
C22_Witness ==
    /\ ct.pc = "returned"
    /\ isdir
    /\ KeySet(WrittenInfo) = {"name", "files", "piece length", "pieces"}
    /\ Len(DGet(WrittenInfo, "files").v) = 2
    /\ rt.pc = "returned"
    /\ ~rt.again
    /\ rt.source = NoneVal
    /\ rt.announce_url = <<"A">>
    /\ Comparable(RetargetedMetainfo) = Comparable(ct.metainfo)


\* The keys of a dictionary in the order of its items
DictKeys(d) == [i \in 1..Len(d.v) |-> KeyChars(d.v[i][1])]

Ascending(keys) == \A i \in 1..(Len(keys) - 1) : StrLess(keys[i], keys[i + 1])

\* Every dictionary of a decoded value, at any depth, has its keys in
\* strictly ascending order of their bytes
RECURSIVE KeysAscending(_)
KeysAscending(x) ==
    CASE x.t = "dict" ->
           /\ Ascending(DictKeys(x))
           /\ \A i \in 1..Len(x.v) : KeysAscending(x.v[i][2])
      [] x.t = "list" -> \A i \in 1..Len(x.v) : KeysAscending(x.v[i])
      [] OTHER -> TRUE

\* C23: in the bytes written by create_torrent and by re-targeting, the keys
\* of every dictionary (top level, info, each file entry) appear in strictly
\* ascending order of their raw bytes, whatever the order of insertion.
C23_SortedKeys ==
    /\ (ct.pc = "returned") => KeysAscending(decode(FileAt(outdir.files, ct.result)))
    /\ (rt.pc = "returned") => KeysAscending(RetargetedMetainfo)

\* C23 happens: source and private were inserted after pieces, and the
\* re-targeting set a source and replaced the announce URL of a multi-file
\* torrent
C23_Witness ==
    /\ ct.pc = "returned"
    /\ isdir
    /\ ~Ascending(DictKeys(ct.metainfo))
    /\ ~Ascending(DictKeys(WrittenInfo))
    /\ {"source", "private"} \subseteq KeySet(WrittenInfo)
    /\ rt.pc = "returned"
    /\ rt.source = <<"Z">>
    /\ rt.announce_url = <<"N">>
    /\ Len(DGet(DGet(RetargetedMetainfo, "info"), "files").v) = 2
    /\ DictKeys(DGet(RetargetedMetainfo, "info")) =
          <<KeyChars("files"), KeyChars("name"), KeyChars("piece length"),
            KeyChars("pieces"), KeyChars("private"), KeyChars("source")>>


(***************************************************************************)
(* Files and directories that hold nothing.                                *)
(***************************************************************************)
RemoveAt(s, i) == SubSeq(s, 1, i - 1) \o SubSeq(s, i + 1, Len(s))

\* C24: for every directory and piece length, a zero-byte file created
\* anywhere in the directory adds exactly one files entry, of length 0, at
\* its sorted position and leaves pieces identical; a sub-directory holding
\* nothing adds no entry.
C24_ZeroByteFile ==
    (built.called /\ built.before.kind # "none"
        /\ built.piece_size = built.before.piece_size) =>
        LET old == DGet(built.before.info, "files").v
            new == DGet(built.info, "files").v
        IN  /\ DGet(built.info, "pieces") = DGet(built.before.info, "pieces")
            /\ (built.before.kind = "dir") => built.info = built.before.info
            /\ (built.before.kind = "file") =>
                  /\ Len(new) = Len(old) + 1
                  /\ \E i \in 1..Len(new) :
                        /\ EntryPath(new[i]) = built.before.added
                        /\ DGet(new[i], "length").v = 0
                        /\ RemoveAt(new, i) = old
                        /\ i > 1 => ListLess(EntryPath(new[i - 1]), EntryPath(new[i]))
                        /\ i < Len(new) => ListLess(EntryPath(new[i]), EntryPath(new[i + 1]))

\* C24 happens: an empty file was created between two files whose bytes
\* share a piece, next to an empty sub-directory, and the directory was
\* built again with the same piece length
C24_Witness ==
    /\ built.called
    /\ built.before.kind = "file"
    /\ built.before.added = <<SegAdotB>>
    /\ built.piece_size = 2
    /\ built.before.piece_size = 2
    /\ dirs = {SegC}
    /\ Files = TreePaths
    /\ tree[<<SegA, SegB>>] = <<0>>
    /\ tree[<<SegB>>] = <<0, 1, 1>>
    /\ Len(DGet(built.info, "files").v) = 3
    /\ Len(DGet(built.info, "pieces").v) = 2


(***************************************************************************)
(* The hashing loops step by step.                                         *)
(***************************************************************************)
\* The bytes the loop has read so far
RECURSIVE SizeOfFirst(_, _)
SizeOfFirst(files, n) ==
    IF n = 0 THEN 0 ELSE Len(tree[files[n]]) + SizeOfFirst(files, n - 1)

Consumed ==
    IF hs.pc = "reading" THEN SizeOfFirst(hs.files, hs.i - 1) + hs.pos
    ELSE SizeOfFirst(hs.files, hs.i - 1)

\* C25: during hashing at most one input file handle is open at any time; a
\* handle is closed as soon as its file is read to the end or a read fails,
\* before the next file is opened; none is open when the build returns or
\* raises.
C25_OneHandle ==
    /\ Cardinality(hs.handles) <= 1
    /\ (hs.pc = "reading") => hs.handles = {hs.i}
    /\ (hs.pc \in {"idle", "loop", "returned", "raised"}) => hs.handles = {}

\* C25 happens: the third file of a directory is open and partly read
\* after two files were read to the end and closed
C25_Witness ==
    /\ hs.pc = "reading"
    /\ ~hs.single
    /\ hs.i = 3
    /\ hs.pos > 0
    /\ hs.handles = {3}
    /\ hs.pieces # <<>>

\* C27: in the multi-file hasher, for every positive piece length, the
\* accumulator never holds more than piece_length bytes, and fewer when a
\* read is issued; a digest is emitted and the buffer reset exactly when the
\* buffer reaches piece_length; after the last file one final digest is
\* emitted if and only if 1..piece_length-1 bytes remain.
C27_Accumulator ==
    (hs.pc # "idle" /\ ~hs.single) =>
        /\ Len(hs.piece_data) <= hs.piece_size
        /\ (hs.pc \in {"loop", "reading"}) =>
              /\ Len(hs.piece_data) < hs.piece_size
              /\ Len(hs.piece_data) = Consumed % hs.piece_size
              /\ Len(hs.pieces) = Consumed \div hs.piece_size
        /\ (hs.pc = "returned") =>
              /\ Len(hs.piece_data) \in 0..(hs.piece_size - 1)
              /\ Len(hs.pieces) = (Consumed \div hs.piece_size)
                                     + (IF Len(hs.piece_data) \in 1..(hs.piece_size - 1)
                                        THEN 1 ELSE 0)
              /\ Len(hs.pieces) = CeilDiv(Consumed, hs.piece_size)
              /\ hs.pieces =
                    calculate_pieces_for_files(
                        [k \in 1..Len(hs.files) |-> FileEntry(hs.files[k])], hs.piece_size)

\* C27 happens: three files were hashed with a piece of two bytes that
\* spans two of them, and one byte remained for the final digest
C27_Witness ==
    /\ hs.pc = "returned"
    /\ ~hs.single
    /\ Len(hs.files) = 3
    /\ hs.piece_size = 2
    /\ tree[hs.files[1]] = <<0>>
    /\ tree[hs.files[3]] = <<0, 1, 1>>
    /\ Len(hs.piece_data) = 1
    /\ Len(hs.pieces) = 3


(***************************************************************************)
(* Debug mode.                                                             *)
(***************************************************************************)
\* C26 as claimed: with config['debug'] true, YUSTracker.upload,
\* _upload_api and _upload_web_form and QBittorrentClient.login,
\* add_torrent and set_torrent_cover send no HTTP request.
C26_DebugSendsNothing ==
    (net.called /\ net.e.debug) => net.out.requests = <<>>


(***************************************************************************)
(* process_file and process_album: torrent and upload steps.               *)
(***************************************************************************)
\* How often a call occurs in the calls made for a metadata dict
Calls(m, what) == Cardinality({i \in 1..Len(m.events) : m.events[i] = what})

\* C28: while process_album processes the tracks, no torrent is created and
\* no upload attempted for any track, whatever the caller's options; there
\* is at most one torrent creation and one upload per album, after all
\* tracks; the caller's options dict is left unchanged.
C28_AlbumFrame ==
    (run.mode = "album") =>
        /\ \A i \in 1..Len(run.tracks) :
              /\ run.tracks[i].events = <<>>
              /\ run.tracks[i].torrent_path = NoneVal
              /\ run.tracks[i].uploaded = "unset"
        /\ (run.pc = "tracks") => run.m.events = <<>>
        /\ Calls(run.m, "create_torrent") <= 1
        /\ Calls(run.m, "upload") <= 1
        /\ run.options = run.passed

\* C28 happens: an album of two tracks was processed with torrent creation
\* and upload requested, and the one call of create_torrent was made for
\* the album
C28_Witness ==
    /\ run.mode = "album"
    /\ run.pc = "returned"
    /\ run.passed.create_torrent
    /\ run.passed.upload
    /\ run.passed.tracker = <<"y">>
    /\ run.track_options # run.passed
    /\ Len(run.tracks) = 2
    /\ run.m.events = <<"create_torrent">>

\* What C29 says of one metadata dict and the options it was processed with
UploadAfterTorrent(m, options) ==
    /\ (Calls(m, "upload") > 0) =>
          /\ options.create_torrent
          /\ m.created
          /\ Truthy(m.torrent_path)
          /\ FileAt(m.files, m.torrent_path) # NoneVal
          /\ \E i, j \in 1..Len(m.events) :
                i < j /\ m.events[i] = "create_torrent" /\ m.events[j] = "upload"
    /\ (~options.create_torrent \/ ~m.created) =>
          /\ Calls(m, "upload") = 0
          /\ m.uploaded # "True"

C30_SanitizeIdempotentClean ==
    named.called =>
        /\ utils_sanitize_filename(named.result) = named.result
        /\ named.result # <<>>
        /\ Len(named.result) <= NameLimit
        /\ Head(named.result) \notin {" ", "."}
        /\ named.result[Len(named.result)] \notin {" ", "."}

=============================================================================
